---------------------------- MODULE Spec2Model ----------------------------
(***************************************************************************)
(* Verification model of the Texas county choropleth view.                 *)
(*                                                                         *)
(* Strings that the program inspects character by character (county        *)
(* labels, alert severities) are sequences of one-character strings, so    *)
(* that the regular expression, trim() and toLowerCase() are computed as   *)
(* the JavaScript engine computes them.                                    *)
(***************************************************************************)
EXTENDS Integers, Sequences, FiniteSets, TLC

VARIABLES
    rawName,      \* normalizer: the raw county label handed to the normalizer
    canonical,    \* normalizer: normalizeCountyName(rawName), once computed
    recanonical,  \* normalizer: normalizeCountyName(canonical), once computed
    npc,          \* normalizer: "raw", "once" or "twice"
    counties,     \* join: the fetched list of county records
    polygonName,  \* join: the COUNTY label of the polygon being looked up
    found,        \* join: what findCountyByName returned, once it has run
    fpc,          \* join: "lookup" or "found"
    county,       \* classifier: the record being colored and shown
    dataType,     \* classifier: the selected metric tab
    color,        \* classifier: getColor(county, dataType), once computed
    card,         \* classifier: the badges of the detail card, once rendered
    chatMounted,  \* chat: the Chatbot component is mounted
    messages,     \* chat: the message list
    inputValue,   \* chat: the text in the input
    isCollapsed,  \* chat: the widget shows its header only
    isLoading,    \* chat: a chat request is being answered
    isConnected,  \* chat: "null", "true" or "false"
    isDataLoaded, \* chat: data_loaded of the last health check
    isDataLoading,\* chat: data_loading of the last health check
    effectPending,\* chat: the polling effect has to run for the last render
    intervalId,   \* chat: the last effect run holds an interval timer
    activeIntervals, \* chat: number of interval timers that are set
    healthInFlight,  \* chat: number of health checks awaiting their response
    chatInFlight, \* chat: a chat request awaits its response
    everLoaded,   \* chat (history): a health check has reported data_loaded
    tickedAfterLoaded, \* chat (history): a timer tick followed such a report
    chatRequests, \* chat (history): the texts sent to /api/chat, in order
    loading,      \* home: the loading view is shown
    error,        \* home: the error message, or NoError
    homeCounties, \* home: the counties handed to the map section
    lastUpdated,  \* home: last_updated of the timestamp artifact
    hpc,          \* home: the position in fetchData
    countyResponse, \* home (history): how the county fetch settled
    jpc,          \* job: the index of the next step
    jobResult,    \* job: "running", "success" or "failure"
    configured,   \* job: the counties of the county file
    dropPolicy,   \* job: the collector drops a county whose lookup failed
    unstagedChanges, \* job: tracked files outside the added paths are modified
    failedLookups,\* job: the counties whose lookup failed
    collectExit,  \* job: the exit status of the collection script
    collectFailed,\* job (history): the collection step has failed
    workFiles,    \* job: the artifacts in the runner's working tree
    mainFiles,    \* job: the artifacts on origin/main
    pagesFiles,   \* job: the artifacts on the deployed site
    committed,    \* job: git commit has run
    retry_count,  \* job: failed pushes so far
    push_successful, \* job: a push has succeeded
    deployed,     \* job (history): npm run deploy has run
    pullsDone,    \* job (history): the number of git pull --rebase that ran
    siteSnapshot, \* site: the number of the snapshot that is deployed
    mapCounties,  \* map: the counties handed to TexasMap
    mapDataType,  \* map: dataType of TexasMap, the selected tab
    selectedCounty, \* map: the record of the fixed card, or NullCounty
    hoveredCounty,  \* map: the record of the hover card, or NullCounty
    mapCurrent,   \* map: map.current, the number of the instance or 0
    instancesCreated, \* map: the number of map instances created so far
    loadPending,  \* map: the current instance has not fired its load event
    styleLoaded,  \* map: the style of the current instance is loaded
    pendingFetches, \* map: the GeoJSON fetches in flight
    countySourceBy, \* map: the instance whose callback added texas-counties
    statesSourceBy, \* map: the instance whose callback added us-states
    citiesSourceBy, \* map: the instance whose callback added texas-cities
    fillColor,    \* map: fill-color of the layer texas-counties-fill
    handlersBy,   \* map: the instance whose callback registered the handlers
    hoveredCountyId, \* map: hoveredCountyId of that callback's closure
    cursor,       \* map: the COUNTY of the polygon under the cursor
    lastClicked   \* map (history): the COUNTY of the polygon clicked last

normVars == <<rawName, canonical, recanonical, npc>>
findVars == <<counties, polygonName, found, fpc>>
classVars == <<county, dataType, color, card>>

chatVars ==
    <<chatMounted, messages, inputValue, isCollapsed, isLoading, isConnected,
      isDataLoaded, isDataLoading, effectPending, intervalId, activeIntervals,
      healthInFlight, chatInFlight, everLoaded, tickedAfterLoaded,
      chatRequests>>

\* the pure functions' variables, and the variables of the page and the job
pureVars == <<normVars, findVars, classVars>>
homeVars == <<loading, error, homeCounties, lastUpdated, hpc, countyResponse>>

jobVars ==
    <<jpc, jobResult, configured, dropPolicy, unstagedChanges, failedLookups,
      collectExit, collectFailed, workFiles, mainFiles, pagesFiles, committed,
      retry_count, push_successful, deployed, pullsDone>>

siteVars == <<siteSnapshot>>

mapVars ==
    <<mapCounties, mapDataType, selectedCounty, hoveredCounty, mapCurrent,
      instancesCreated, loadPending, styleLoaded, pendingFetches, countySourceBy,
      statesSourceBy, citiesSourceBy, fillColor, handlersBy, hoveredCountyId,
      cursor, lastClicked>>

pageVars == <<chatVars, homeVars, jobVars, siteVars, mapVars>>

exceptChat == <<pureVars, homeVars, jobVars, siteVars, mapVars>>
exceptHome == <<pureVars, chatVars, jobVars, siteVars, mapVars>>
exceptJob == <<pureVars, chatVars, homeVars, siteVars, mapVars>>
exceptMap == <<pureVars, chatVars, homeVars, jobVars, siteVars>>

vars == <<pureVars, pageVars>>

(***************************************************************************)
(* Characters and character classes                                        *)
(***************************************************************************)
UpperCaseLetters ==
    <<"A","B","C","D","E","F","G","H","I","J","K","L","M",
      "N","O","P","Q","R","S","T","U","V","W","X","Y","Z">>

LowerCaseLetters ==
    <<"a","b","c","d","e","f","g","h","i","j","k","l","m",
      "n","o","p","q","r","s","t","u","v","w","x","y","z">>

\* String.prototype.toLowerCase on one character
toLowerCaseChar(c) ==
    IF \E i \in 1..Len(UpperCaseLetters) : UpperCaseLetters[i] = c
    THEN LowerCaseLetters[CHOOSE i \in 1..Len(UpperCaseLetters) : UpperCaseLetters[i] = c]
    ELSE c

\* String.prototype.toLowerCase
toLowerCase(s) == [i \in 1..Len(s) |-> toLowerCaseChar(s[i])]

\* the class \s of the regular expression, which is also what trim() removes
IsWhiteSpace(c) == c \in {" ", "\t"}

\* the literal "County" of the pattern /\s+County$/i
CountyLiteral == <<"C","o","u","n","t","y">>

(***************************************************************************)
(* normalizeCountyName: name.replace(/\s+County$/i, '').trim()             *)
(***************************************************************************)
\* /\s+County$/i matches in s: the input ends with one or more white-space
\* characters followed by "County" in any letter case
CountySuffixMatches(s) ==
    /\ Len(s) >= Len(CountyLiteral) + 1
    /\ IsWhiteSpace(s[Len(s) - Len(CountyLiteral)])
    /\ toLowerCase(SubSeq(s, Len(s) - Len(CountyLiteral) + 1, Len(s)))
          = toLowerCase(CountyLiteral)

\* index at which the leftmost match starts: the first character of the
\* white-space run that ends right before the final "County"
CountySuffixStart(s) ==
    CHOOSE i \in 1..(Len(s) - Len(CountyLiteral)) :
        /\ \A j \in i..(Len(s) - Len(CountyLiteral)) : IsWhiteSpace(s[j])
        /\ (i = 1 \/ ~IsWhiteSpace(s[i - 1]))

\* name.replace(/\s+County$/i, '')
ReplaceCountySuffix(s) ==
    IF CountySuffixMatches(s) THEN SubSeq(s, 1, CountySuffixStart(s) - 1) ELSE s

\* String.prototype.trim
Trim(s) ==
    IF \A i \in 1..Len(s) : IsWhiteSpace(s[i])
    THEN <<>>
    ELSE LET first == CHOOSE i \in 1..Len(s) :
                          ~IsWhiteSpace(s[i]) /\ \A j \in 1..(i - 1) : IsWhiteSpace(s[j])
             last  == CHOOSE i \in 1..Len(s) :
                          ~IsWhiteSpace(s[i]) /\ \A j \in (i + 1)..Len(s) : IsWhiteSpace(s[j])
         IN  SubSeq(s, first, last)

\* the normalizer with the trim() call left out
normalizeCountyNameNoTrim(name) == ReplaceCountySuffix(name)

normalizeCountyName(name) == Trim(ReplaceCountySuffix(name))

(***************************************************************************)
(* Raw labels: concatenations of at most MaxPieces pieces                  *)
(***************************************************************************)
MaxPieces == 4

Pieces ==
    { <<" ">>, <<"\t">>,
      <<"F","o","o">>, <<"f","o","o">>,
      <<"E","l"," ","P","a","s","o">>,
      <<"C","o","u","n","t","y">>, <<"c","o","u","n","t","y">>,
      <<"C","O","U","N","T","Y">> }

RECURSIVE Flatten(_)
Flatten(ps) == IF ps = <<>> THEN <<>> ELSE Head(ps) \o Flatten(Tail(ps))

RawLabels == { Flatten(ps) : ps \in UNION { [1..n -> Pieces] : n \in 0..MaxPieces } }

(***************************************************************************)
(* The normalizer applied to a raw label, and again to its own result      *)
(***************************************************************************)
NormIdle ==
    /\ rawName = <<>>
    /\ canonical = <<>>
    /\ recanonical = <<>>
    /\ npc = "raw"

FindIdle ==
    /\ counties = <<>>
    /\ polygonName = <<>>
    /\ found = <<>>
    /\ fpc = "lookup"

NoColor == ""
NoCard == <<>>

ClassIdle ==
    /\ county = <<>>
    /\ dataType = "alerts"
    /\ color = NoColor
    /\ card = NoCard

ChatIdle ==
    /\ chatMounted = FALSE
    /\ messages = <<>>
    /\ inputValue = <<>>
    /\ isCollapsed = TRUE
    /\ isLoading = FALSE
    /\ isConnected = "null"
    /\ isDataLoaded = FALSE
    /\ isDataLoading = FALSE
    /\ effectPending = FALSE
    /\ intervalId = FALSE
    /\ activeIntervals = 0
    /\ healthInFlight = 0
    /\ chatInFlight = FALSE
    /\ everLoaded = FALSE
    /\ tickedAfterLoaded = FALSE
    /\ chatRequests = <<>>

HomeIdle ==
    /\ hpc = "unmounted"
    /\ loading = TRUE
    /\ error = "null"
    /\ homeCounties = <<>>
    /\ lastUpdated = "null"
    /\ countyResponse = [kind |-> "none", ok |-> FALSE,
                         body |-> [parses |-> FALSE, value |-> <<>>]]

\* the exit status of a script that has not run
NotRun == -1

JobIdle ==
    /\ jpc = 0
    /\ jobResult = "idle"
    /\ configured = {}
    /\ dropPolicy = FALSE
    /\ unstagedChanges = FALSE
    /\ failedLookups = {}
    /\ collectExit = NotRun
    /\ collectFailed = FALSE
    /\ workFiles = <<>>
    /\ mainFiles = <<>>
    /\ pagesFiles = <<>>
    /\ committed = FALSE
    /\ retry_count = 0
    /\ push_successful = FALSE
    /\ deployed = FALSE
    /\ pullsDone = 0

SiteIdle == siteSnapshot = 0

MapIdle ==
    /\ mapCounties = <<>>
    /\ mapDataType = "alerts"
    /\ selectedCounty = <<>>
    /\ hoveredCounty = <<>>
    /\ mapCurrent = 0
    /\ instancesCreated = 0
    /\ loadPending = FALSE
    /\ styleLoaded = FALSE
    /\ pendingFetches = {}
    /\ countySourceBy = 0
    /\ statesSourceBy = 0
    /\ citiesSourceBy = 0
    /\ fillColor = [branches |-> <<>>, fallback |-> ""]
    /\ handlersBy = 0
    /\ hoveredCountyId = <<>>
    /\ cursor = <<>>
    /\ lastClicked = <<>>

PureIdle == NormIdle /\ FindIdle /\ ClassIdle
PageIdle == ChatIdle /\ HomeIdle /\ JobIdle /\ SiteIdle

NormInit ==
    /\ rawName \in RawLabels
    /\ canonical = <<>>
    /\ recanonical = <<>>
    /\ npc = "raw"
    /\ FindIdle
    /\ ClassIdle
    /\ PageIdle
    /\ MapIdle

Normalize ==
    /\ npc = "raw"
    /\ canonical' = normalizeCountyName(rawName)
    /\ npc' = "once"
    /\ UNCHANGED <<rawName, recanonical, findVars, classVars, pageVars>>

Renormalize ==
    /\ npc = "once"
    /\ recanonical' = normalizeCountyName(canonical)
    /\ npc' = "twice"
    /\ UNCHANGED <<rawName, canonical, findVars, classVars, pageVars>>

NormNext == Normalize \/ Renormalize

SpecNormalize == NormInit /\ [][NormNext]_vars

(***************************************************************************)
(* Labels named by the claims about the normalizer                         *)
(***************************************************************************)
FooCountyLabel == <<"F","o","o"," ","C","o","u","n","t","y">>
fooCountyLabel == <<"f","o","o"," ","c","o","u","n","t","y">>
PaddedFooLabel == <<" ","F","o","o"," ">>
FooKey == <<"F","o","o">>
fooKey == <<"f","o","o">>
ElPasoCountyLabel == <<"E","l"," ","P","a","s","o"," ","C","o","u","n","t","y">>
ElPasoKey == <<"E","l"," ","P","a","s","o">>

\* C1 (as stated): the three raw labels "Foo County", "foo county" and
\* " Foo " are all mapped to the one canonical key "Foo".
C1_ThreeLabelsGiveFoo ==
    (npc # "raw" /\ rawName \in {FooCountyLabel, fooCountyLabel, PaddedFooLabel})
        => canonical = FooKey

\* C1 (amended): "Foo County" and " Foo " are mapped to "Foo"; "foo county"
\* is mapped to "foo", which equals the other two only up to letter case.
C1_LabelsGiveFooUpToCase ==
    npc # "raw" =>
        /\ (rawName \in {FooCountyLabel, PaddedFooLabel} => canonical = FooKey)
        /\ (rawName = fooCountyLabel => canonical = fooKey)
        /\ (rawName \in {FooCountyLabel, fooCountyLabel, PaddedFooLabel}
               => toLowerCase(canonical) = fooKey)

C1_Witness == npc = "once" /\ rawName = fooCountyLabel /\ canonical = fooKey

\* C2: canonicalization is idempotent: normalizing a canonical key again
\* gives the same key.
C2_Idempotent == npc = "twice" => recanonical = canonical

\* what section 4.1 asks for: the input without its surrounding white space
\* and without one trailing "County" word
TrimmedWithoutCountyWord(s) == ReplaceCountySuffix(Trim(s))

\* C3: the result is the input with surrounding white space removed and one
\* trailing "County" word (any letter case) removed, nothing else changed;
\* an input without such a suffix is returned as its trimmed self.
\* (Labels that consist of the word "County" alone are left out: whether
\* the whole label counts as a suffix is not said.)
C3_TrimmedAndSuffixStripped ==
    (npc # "raw" /\ toLowerCase(Trim(rawName)) # toLowerCase(CountyLiteral))
        => canonical = TrimmedWithoutCountyWord(rawName)

(***************************************************************************)
(* County records (CountyData) and the join of polygon labels to records   *)
(***************************************************************************)
\* visibility.value is a number or null
NullValue == [isNull |-> TRUE, number |-> 0]
NumberValue(n) == [isNull |-> FALSE, number |-> n]

\* data.alerts is optional
NoAlertsField == [present |-> FALSE, list |-> <<>>]
AlertsField(list) == [present |-> TRUE, list |-> list]

\* one CountyData record; hazards is the hazards list
CountyData(name, temp, precip, hazards, vis, alerts) ==
    [ countyName |-> name,
      data |-> [ temperature |-> temp,
                 probabilityOfPrecipitation |-> precip,
                 hazards |-> hazards,
                 visibility |-> vis,
                 alerts |-> alerts ] ]

\* the result of Array.prototype.find: undefined, or the element found
Undefined == <<>>
Found(r) == <<r>>

\* the comparison of findCountyByName without the normalizer on the
\* record's side
findCountyByNameRawRecord(list, name) ==
    LET normalizedName == normalizeCountyName(name)
        hits == { i \in 1..Len(list) : list[i].countyName = normalizedName }
    IN  IF hits = {} THEN Undefined
        ELSE Found(list[CHOOSE i \in hits : \A j \in hits : i <= j])

\* counties.find(county => normalizeCountyName(county.countyName) === normalizedName)
findCountyByName(list, name) ==
    LET normalizedName == normalizeCountyName(name)
        hits == { i \in 1..Len(list) :
                    normalizeCountyName(list[i].countyName) = normalizedName }
    IN  IF hits = {} THEN Undefined
        ELSE Found(list[CHOOSE i \in hits : \A j \in hits : i <= j])

MaxCounties == 3

\* names a fetched record may carry, and labels a polygon may carry
RecordNames ==
    { FooKey, fooKey, FooCountyLabel, ElPasoKey, <<"F","o","o"," ">> }
PolygonLabels ==
    { FooCountyLabel, fooCountyLabel, ElPasoCountyLabel, ElPasoKey,
      <<"B","a","r"," ","C","o","u","n","t","y">> }

\* records that differ in their name or in their temperature
JoinRecords ==
    { CountyData(n, t, 0, <<>>, NullValue, NoAlertsField) :
        n \in RecordNames, t \in {1, 2} }

FindInit ==
    /\ NormIdle
    /\ ClassIdle
    /\ PageIdle
    /\ MapIdle
    /\ counties \in UNION { [1..n -> JoinRecords] : n \in 0..MaxCounties }
    /\ polygonName \in PolygonLabels
    /\ found = Undefined
    /\ fpc = "lookup"

FindCounty ==
    /\ fpc = "lookup"
    /\ found' = findCountyByName(counties, polygonName)
    /\ fpc' = "found"
    /\ UNCHANGED <<counties, polygonName, normVars, classVars, pageVars>>

FindNext == FindCounty

SpecFind == FindInit /\ [][FindNext]_vars

Joins(r, name) == normalizeCountyName(r.countyName) = normalizeCountyName(name)

OnePerCanonicalName(list) ==
    \A i, j \in 1..Len(list) :
        normalizeCountyName(list[i].countyName) = normalizeCountyName(list[j].countyName)
            => i = j

Reorderings(list) ==
    { [i \in 1..Len(list) |-> list[p[i]]] : p \in Permutations(1..Len(list)) }

\* C4: findCountyByName returns a record of the list whose normalized name
\* equals the normalized query, returns undefined exactly when the list has
\* no such record, and, when the list holds one record per canonical name,
\* returns the same record for every order of the list.
C4_FindJoinsOnNormalizedName ==
    fpc = "found" =>
        /\ found # Undefined =>
              /\ \E i \in 1..Len(counties) : counties[i] = found[1]
              /\ Joins(found[1], polygonName)
        /\ found = Undefined <=>
              ~ \E i \in 1..Len(counties) : Joins(counties[i], polygonName)
        /\ OnePerCanonicalName(counties) =>
              \A other \in Reorderings(counties) :
                  findCountyByName(other, polygonName) = found

C4_Witness ==
    /\ fpc = "found"
    /\ Len(counties) = 3
    /\ OnePerCanonicalName(counties)
    /\ found = Found(counties[3])
    /\ found[1].countyName = FooCountyLabel
    /\ polygonName = FooCountyLabel

(***************************************************************************)
(* Alert severities                                                        *)
(***************************************************************************)
\* alert.severity is a string, or is missing from the alert
NoSeverity == <<"undefined">>

extreme == <<"e","x","t","r","e","m","e">>
severe == <<"s","e","v","e","r","e">>
moderate == <<"m","o","d","e","r","a","t","e">>
minor == <<"m","i","n","o","r">>

\* alert.severity?.toLowerCase()
severityToLowerCase(severity) ==
    IF severity = NoSeverity THEN NoSeverity ELSE toLowerCase(severity)

\* the loop body with the guard of the 'moderate' branch left out
highestSeverityStepNoGuard(highestSeverity, alert) ==
    LET severity == severityToLowerCase(alert.severity)
    IN  IF severity = extreme THEN extreme
        ELSE IF severity = severe /\ highestSeverity # extreme THEN severe
        ELSE IF severity = moderate THEN moderate
        ELSE highestSeverity

\* one pass of the body of county.data.alerts.forEach(alert => ...)
highestSeverityStep(highestSeverity, alert) ==
    LET severity == severityToLowerCase(alert.severity)
    IN  IF severity = extreme THEN extreme
        ELSE IF severity = severe /\ highestSeverity # extreme THEN severe
        ELSE IF severity = moderate /\ highestSeverity \notin {extreme, severe}
             THEN moderate
        ELSE highestSeverity

\* highestSeverity after the forEach over the alerts, starting from 'minor'
RECURSIVE highestSeverityOf(_, _)
highestSeverityOf(highestSeverity, alerts) ==
    IF alerts = <<>> THEN highestSeverity
    ELSE highestSeverityOf(highestSeverityStep(highestSeverity, Head(alerts)),
                           Tail(alerts))

(***************************************************************************)
(* getColor(county, dataType)                                              *)
(***************************************************************************)
\* the temperature branch with the second boundary taken inclusive
temperatureColorInclusive(temp) ==
    IF temp < 0 THEN "#9CA3AF"
    ELSE IF temp <= 10 THEN "#F7FCFD"
    ELSE IF temp < 20 THEN "#FFD166"
    ELSE IF temp < 30 THEN "#FF9966"
    ELSE "#FF5F5F"

temperatureColor(temp) ==
    IF temp < 0 THEN "#9CA3AF"
    ELSE IF temp < 10 THEN "#F7FCFD"
    ELSE IF temp < 20 THEN "#FFD166"
    ELSE IF temp < 30 THEN "#FF9966"
    ELSE "#FF5F5F"

precipitationColor(precipProbability) ==
    IF precipProbability = 0 THEN "#FFFFFF"
    ELSE IF precipProbability <= 20 THEN "#E6F0FF"
    ELSE IF precipProbability <= 40 THEN "#B3D9FF"
    ELSE IF precipProbability <= 60 THEN "#80C2FF"
    ELSE IF precipProbability <= 80 THEN "#4DA6FF"
    ELSE "#1A8CFF"

hazardsColor(hazards) == IF Len(hazards) > 0 THEN "#FF5F5F" ELSE "#F7FCFD"

\* !visibility: true of null and of the number 0
IsFalsy(visibility) == visibility.isNull \/ visibility.number = 0

visibilityColor(visibility) ==
    IF IsFalsy(visibility) THEN "#F7FCFD"
    ELSE IF visibility.number < 1000 THEN "#FF5F5F"
    ELSE IF visibility.number < 5000 THEN "#FF9966"
    ELSE IF visibility.number < 10000 THEN "#FFD166"
    ELSE "#F7FCFD"

alertsColor(alerts) ==
    IF ~alerts.present \/ Len(alerts.list) = 0 THEN "#F7FCFD"
    ELSE LET highestSeverity == highestSeverityOf(minor, alerts.list)
         IN  IF highestSeverity \in {extreme, severe} THEN "#FF0000"
             ELSE IF highestSeverity = moderate THEN "#FFA500"
             ELSE "#FFFF00"

getColor(c, dt) ==
    IF dt = "temperature" THEN temperatureColor(c.data.temperature)
    ELSE IF dt = "precipitation"
         THEN precipitationColor(c.data.probabilityOfPrecipitation)
    ELSE IF dt = "hazards" THEN hazardsColor(c.data.hazards)
    ELSE IF dt = "visibility" THEN visibilityColor(c.data.visibility)
    ELSE IF dt = "alerts" THEN alertsColor(c.data.alerts)
    ELSE "#9CA3AF"

DataTypes == {"temperature", "precipitation", "hazards", "visibility", "alerts"}

\* a dataType that is none of the five (the type is not checked at run time)
UnrecognizedMetric == "wind"
Metrics == DataTypes \cup {UnrecognizedMetric}

(***************************************************************************)
(* The badges of CountyDetailCard                                          *)
(***************************************************************************)
\* the switch with the 'minor' color as its default
getSeverityColorDefaultMinor(severity) ==
    LET lower == severityToLowerCase(severity)
    IN  IF lower = extreme THEN "bg-red-700 text-white"
        ELSE IF lower = severe THEN "bg-red-500 text-white"
        ELSE IF lower = moderate THEN "bg-orange-500"
        ELSE "bg-yellow-400"

getSeverityColor(severity) ==
    LET lower == severityToLowerCase(severity)
    IN  IF lower = extreme THEN "bg-red-700 text-white"
        ELSE IF lower = severe THEN "bg-red-500 text-white"
        ELSE IF lower = moderate THEN "bg-orange-500"
        ELSE IF lower = minor THEN "bg-yellow-400"
        ELSE "bg-blue-500 text-white"

getVisibilityBadgeColor(meters) ==
    IF meters.isNull THEN "bg-gray-400 text-white"
    ELSE IF meters.number < 1000 THEN "bg-red-500 text-white"
    ELSE IF meters.number < 5000 THEN "bg-orange-500"
    ELSE IF meters.number < 10000 THEN "bg-yellow-400"
    ELSE "bg-blue-500 text-white"

\* (meters / 1609.34).toFixed(1), as a number of tenths of a mile
milesToFixed1(meters) == (meters * 2000 + 160934) \div (2 * 160934)

\* the label as the pair of its wording and the tenths of a mile it prints
getVisibilityLabel(meters) ==
    IF meters.isNull THEN <<"Not available", 0>>
    ELSE IF meters.number < 1000 THEN <<"Very poor", milesToFixed1(meters.number)>>
    ELSE IF meters.number < 5000 THEN <<"Poor", milesToFixed1(meters.number)>>
    ELSE IF meters.number < 10000 THEN <<"Moderate", milesToFixed1(meters.number)>>
    ELSE <<"Good", milesToFixed1(meters.number)>>

\* the badge function with the upper boundaries taken exclusive
getPrecipitationBadgeColorExclusive(probability) ==
    IF probability = 0 THEN "bg-white text-black border border-gray-300"
    ELSE IF probability < 20 THEN "bg-blue-100 text-blue-800"
    ELSE IF probability < 40 THEN "bg-blue-200 text-blue-800"
    ELSE IF probability < 60 THEN "bg-blue-300 text-blue-800"
    ELSE IF probability < 80 THEN "bg-blue-400 text-white"
    ELSE "bg-blue-500 text-white"

getPrecipitationBadgeColor(probability) ==
    IF probability = 0 THEN "bg-white text-black border border-gray-300"
    ELSE IF probability <= 20 THEN "bg-blue-100 text-blue-800"
    ELSE IF probability <= 40 THEN "bg-blue-200 text-blue-800"
    ELSE IF probability <= 60 THEN "bg-blue-300 text-blue-800"
    ELSE IF probability <= 80 THEN "bg-blue-400 text-white"
    ELSE "bg-blue-500 text-white"

(***************************************************************************)
(* Hazard entries and their display text                                   *)
(***************************************************************************)
\* a hazard entry is a string, an object, or some other JSON value (null, a
\* number); an object maps some of its keys to strings, "" included
StringHazard(s) == [kind |-> "string", text |-> s, fields |-> <<>>]
ObjectHazard(fields) == [kind |-> "object", text |-> "", fields |-> fields]
OtherHazard == [kind |-> "other", text |-> "", fields |-> <<>>]

\* the keys an object is serialized with, in the order it carries them
ObjectKeys == <<"event", "type", "name", "description", "phenomenon", "id">>

\* hazard.key is truthy: the key is there and its string is not empty
HasField(hazard, key) ==
    \E i \in DOMAIN hazard.fields :
        hazard.fields[i].key = key /\ hazard.fields[i].value # ""

FieldOf(hazard, key) ==
    hazard.fields[CHOOSE i \in DOMAIN hazard.fields : hazard.fields[i].key = key].value

\* a display text is a sequence of pieces of text
Text(s) == <<s>>

\* JSON.stringify(hazard) of an object parsed from JSON (it cannot throw):
\* the braces around the "key":"value" pairs, separated by commas
RECURSIVE StringifyPairs(_)
StringifyPairs(fields) ==
    IF fields = <<>> THEN <<>>
    ELSE <<Head(fields).key, ":", Head(fields).value>>
         \o (IF Tail(fields) = <<>> THEN <<>> ELSE <<",">>)
         \o StringifyPairs(Tail(fields))

JSONStringify(hazard) == <<"{">> \o StringifyPairs(hazard.fields) \o <<"}">>

\* the function with 'type' probed before 'event'
getHazardDisplayTextTypeFirst(hazard) ==
    IF hazard.kind = "string" THEN Text(hazard.text)
    ELSE IF hazard.kind = "object"
    THEN IF HasField(hazard, "type") THEN Text(FieldOf(hazard, "type"))
         ELSE IF HasField(hazard, "event") THEN Text(FieldOf(hazard, "event"))
         ELSE IF HasField(hazard, "name") THEN Text(FieldOf(hazard, "name"))
         ELSE IF HasField(hazard, "description")
              THEN Text(FieldOf(hazard, "description"))
         ELSE IF HasField(hazard, "phenomenon")
              THEN Text(FieldOf(hazard, "phenomenon"))
         ELSE JSONStringify(hazard)
    ELSE Text("Unknown hazard")

getHazardDisplayText(hazard) ==
    IF hazard.kind = "string" THEN Text(hazard.text)
    ELSE IF hazard.kind = "object"
    THEN IF HasField(hazard, "event") THEN Text(FieldOf(hazard, "event"))
         ELSE IF HasField(hazard, "type") THEN Text(FieldOf(hazard, "type"))
         ELSE IF HasField(hazard, "name") THEN Text(FieldOf(hazard, "name"))
         ELSE IF HasField(hazard, "description")
              THEN Text(FieldOf(hazard, "description"))
         ELSE IF HasField(hazard, "phenomenon")
              THEN Text(FieldOf(hazard, "phenomenon"))
         ELSE JSONStringify(hazard)
    ELSE Text("Unknown hazard")

\* the callback of hazards.map(...) in formatHazards
formatHazardEntry(hazard) ==
    IF hazard.kind = "string" THEN Text(hazard.text)
    ELSE IF hazard.kind = "object"
    THEN IF HasField(hazard, "event") THEN Text(FieldOf(hazard, "event"))
         ELSE IF HasField(hazard, "type") THEN Text(FieldOf(hazard, "type"))
         ELSE IF HasField(hazard, "name") THEN Text(FieldOf(hazard, "name"))
         ELSE IF HasField(hazard, "description")
              THEN Text(FieldOf(hazard, "description"))
         ELSE IF HasField(hazard, "phenomenon")
              THEN Text(FieldOf(hazard, "phenomenon"))
         ELSE JSONStringify(hazard)
    ELSE Text("Unknown hazard")

\* Array.prototype.join(', ') over display texts
RECURSIVE JoinTexts(_)
JoinTexts(texts) ==
    IF texts = <<>> THEN <<>>
    ELSE Head(texts) \o (IF Tail(texts) = <<>> THEN <<>> ELSE <<", ">>)
         \o JoinTexts(Tail(texts))

formatHazards(hazards) ==
    IF Len(hazards) = 0 THEN Text("None")
    ELSE JoinTexts([i \in 1..Len(hazards) |-> formatHazardEntry(hazards[i])])

\* what the card's badge and text functions give for the record it is handed
CardBadges(c) ==
    [ visibilityBadge |-> getVisibilityBadgeColor(c.data.visibility),
      visibilityLabel |-> getVisibilityLabel(c.data.visibility),
      precipitationBadge |->
          getPrecipitationBadgeColor(c.data.probabilityOfPrecipitation),
      severityBadges |->
          [ i \in 1..Len(c.data.alerts.list) |->
                getSeverityColor(c.data.alerts.list[i].severity) ],
      hazardBadges |->
          [ i \in 1..Len(c.data.hazards) |-> getHazardDisplayText(c.data.hazards[i]) ],
      hazardsLine |-> formatHazards(c.data.hazards) ]

(***************************************************************************)
(* Records handed to the classifier: one field varies, the others keep the *)
(* values of the base record                                               *)
(***************************************************************************)
MaxCold == 3
MaxTemp == 32
MaxPrecip == 100
MaxVisibility == 10500
MaxAlerts == 3

Temperatures == (0 - MaxCold)..MaxTemp
Precipitations == 0..MaxPrecip
Visibilities == {NullValue} \cup { NumberValue(n) : n \in 0..MaxVisibility }

Severities ==
    { extreme, severe, moderate, minor,
      <<"E","x","t","r","e","m","e">>, <<"S","E","V","E","R","E">>,
      <<"M","o","d","e","r","a","t","e">>,
      <<"U","n","k","n","o","w","n">>, NoSeverity }

\* objects: every key is absent, maps to "" or maps to a text of its own
\* (the key 'id', which the card does not probe, is absent or has a text)
KeyTexts ==
    [ event |-> "Flood Warning", type |-> "flood", name |-> "Brazos flood",
      description |-> "Flooding of the Brazos", phenomenon |-> "FL", id |-> "urn:7" ]

KeyChoices == [ 1..Len(ObjectKeys) -> {"absent", "empty", "text"} ]

FieldsOf(choice) ==
    LET kept == SelectSeq([ i \in 1..Len(ObjectKeys) |-> i ],
                          LAMBDA i : choice[i] # "absent")
    IN  [ j \in 1..Len(kept) |->
            [ key |-> ObjectKeys[kept[j]],
              value |-> IF choice[kept[j]] = "empty" THEN ""
                        ELSE KeyTexts[ObjectKeys[kept[j]]] ] ]

HazardEntries ==
    { StringHazard(s) : s \in {"Thunderstorm", "Flood Warning", ""} }
    \cup { ObjectHazard(FieldsOf(choice)) : choice \in KeyChoices }
    \cup { OtherHazard }

PairedHazards ==
    { StringHazard("Thunderstorm"), OtherHazard,
      ObjectHazard(<<[key |-> "type", value |-> "flood"]>>),
      ObjectHazard(<<[key |-> "id", value |-> "urn:7"]>>) }

HazardLists ==
    { <<>> } \cup { <<h>> : h \in HazardEntries }
    \cup { <<g, h>> : g \in PairedHazards, h \in PairedHazards }

AlertLists ==
    { [ i \in DOMAIN f |-> [severity |-> f[i]] ] :
        f \in UNION { [1..n -> Severities] : n \in 0..MaxAlerts } }

ClassifiedCounties ==
    { CountyData(FooKey, t, 0, <<>>, NullValue, NoAlertsField) : t \in Temperatures }
    \cup { CountyData(FooKey, 15, p, <<>>, NullValue, NoAlertsField) :
             p \in Precipitations }
    \cup { CountyData(FooKey, 15, 0, h, NullValue, NoAlertsField) : h \in HazardLists }
    \cup { CountyData(FooKey, 15, 0, <<>>, v, NoAlertsField) : v \in Visibilities }
    \cup { CountyData(FooKey, 15, 0, <<>>, NullValue, AlertsField(a)) :
             a \in AlertLists }

ClassInit ==
    /\ NormIdle
    /\ FindIdle
    /\ PageIdle
    /\ MapIdle
    /\ county \in ClassifiedCounties
    /\ dataType = "alerts"
    /\ color = NoColor
    /\ card = NoCard

\* the map paints the county for the metric tab dt
PaintCounty(dt) ==
    /\ dataType' = dt
    /\ color' = getColor(county, dt)
    /\ UNCHANGED <<county, card, normVars, findVars, pageVars>>

\* the detail card is rendered for the county
RenderCard ==
    /\ card = NoCard
    /\ card' = CardBadges(county)
    /\ UNCHANGED <<county, dataType, color, normVars, findVars, pageVars>>

ClassNext == (\E dt \in Metrics : PaintCounty(dt)) \/ RenderCard

SpecClassify == ClassInit /\ [][ClassNext]_vars

Painted(dt) == dataType = dt /\ color # NoColor
Injective(table) == \A i, j \in DOMAIN table : table[i] = table[j] => i = j

(***************************************************************************)
(* Temperature and precipitation buckets                                   *)
(***************************************************************************)
\* the five temperature buckets <0, [0,10), [10,20), [20,30), >=30
TemperatureBucket(t) ==
    CHOOSE b \in 1..5 :
        \/ b = 1 /\ t < 0
        \/ b \in 2..4 /\ (b - 2) * 10 <= t /\ t < (b - 1) * 10
        \/ b = 5 /\ t >= 30

TemperatureBucketColors == <<"#9CA3AF", "#F7FCFD", "#FFD166", "#FF9966", "#FF5F5F">>

\* C5: every temperature is given the color of exactly one of the five
\* buckets <0, [0,10), [10,20), [20,30), >=30 (lower boundary inclusive,
\* upper exclusive), and the five bucket colors are pairwise different.
C5_TemperatureBuckets ==
    /\ Injective(TemperatureBucketColors)
    /\ Painted("temperature") =>
          color = TemperatureBucketColors[TemperatureBucket(county.data.temperature)]

C5_Witness ==
    /\ Painted("temperature")
    /\ county.data.temperature = 10
    /\ color = "#FFD166"

\* the six precipitation buckets 0, (0,20], (20,40], (40,60], (60,80], (80,100]
PrecipitationBucket(p) ==
    CHOOSE b \in 1..6 :
        \/ b = 1 /\ p = 0
        \/ b \in 2..5 /\ (b - 2) * 20 < p /\ p <= (b - 1) * 20
        \/ b = 6 /\ p > 80

PrecipitationBucketColors ==
    <<"#FFFFFF", "#E6F0FF", "#B3D9FF", "#80C2FF", "#4DA6FF", "#1A8CFF">>

PrecipitationBucketBadges ==
    << "bg-white text-black border border-gray-300", "bg-blue-100 text-blue-800",
       "bg-blue-200 text-blue-800", "bg-blue-300 text-blue-800",
       "bg-blue-400 text-white", "bg-blue-500 text-white" >>

\* C6: the map color and the card's precipitation badge place every
\* probability in the same one of the six buckets 0, (0,20], (20,40],
\* (40,60], (60,80], (80,100] (upper boundary inclusive), and each bucket
\* has its own color and its own badge.
C6_PrecipitationBuckets ==
    LET b == PrecipitationBucket(county.data.probabilityOfPrecipitation)
    IN  /\ Injective(PrecipitationBucketColors)
        /\ Injective(PrecipitationBucketBadges)
        /\ Painted("precipitation") => color = PrecipitationBucketColors[b]
        /\ card # NoCard => card.precipitationBadge = PrecipitationBucketBadges[b]

C6_Witness ==
    /\ Painted("precipitation")
    /\ card # NoCard
    /\ county.data.probabilityOfPrecipitation = 20
    /\ color = "#E6F0FF"
    /\ card.precipitationBadge = "bg-blue-100 text-blue-800"

(***************************************************************************)
(* Visibility                                                              *)
(***************************************************************************)
NumericVisibilities == Visibilities \ {NullValue}

\* C7: a record whose visibility.value is null is classified differently
\* from every numeric visibility: in the map color, in the card's badge
\* color and in the card's label.
C7_NullVisibilityIsDistinct ==
    county.data.visibility = NullValue =>
        /\ Painted("visibility") =>
              \A v \in NumericVisibilities : color # visibilityColor(v)
        /\ card # NoCard =>
              \A v \in NumericVisibilities :
                  /\ card.visibilityBadge # getVisibilityBadgeColor(v)
                  /\ card.visibilityLabel[1] # getVisibilityLabel(v)[1]

\* the four numeric visibility buckets <1000, <5000, <10000, otherwise
VisibilityBucket(v) ==
    CHOOSE b \in 1..4 :
        \/ b = 1 /\ 0 <= v /\ v < 1000
        \/ b = 2 /\ 1000 <= v /\ v < 5000
        \/ b = 3 /\ 5000 <= v /\ v < 10000
        \/ b = 4 /\ 10000 <= v

VisibilityBucketColors == <<"#FF5F5F", "#FF9966", "#FFD166", "#F7FCFD">>
VisibilityBucketLabels == <<"Very poor", "Poor", "Moderate", "Good">>

\* C8: every non-negative numeric visibility, 0 included, is classified by
\* the thresholds <1000 very poor, <5000 poor, <10000 moderate, otherwise
\* good; 0 is very poor and not treated like an absent value.
C8_NumericVisibilityBuckets ==
    ~county.data.visibility.isNull =>
        LET b == VisibilityBucket(county.data.visibility.number)
        IN  /\ Painted("visibility") => color = VisibilityBucketColors[b]
            /\ card # NoCard => card.visibilityLabel[1] = VisibilityBucketLabels[b]

(***************************************************************************)
(* Alerts                                                                  *)
(***************************************************************************)
\* rank of a severity: extreme > severe > moderate > minor, letter case
\* ignored, anything else ranked with minor
SeverityRank(severity) ==
    LET lower == severityToLowerCase(severity)
    IN  IF lower = extreme THEN 4
        ELSE IF lower = severe THEN 3
        ELSE IF lower = moderate THEN 2
        ELSE 1

WorstRank(alerts) ==
    CHOOSE r \in 1..4 :
        /\ \E i \in 1..Len(alerts) : SeverityRank(alerts[i].severity) = r
        /\ \A i \in 1..Len(alerts) : SeverityRank(alerts[i].severity) <= r

\* the color of the worst severity, by rank: minor, moderate, severe, extreme
RankColors == <<"#FFFF00", "#FFA500", "#FF0000", "#FF0000">>

WithAlerts(c, list) == [c EXCEPT !.data.alerts = AlertsField(list)]

\* C9: for a non-empty alert list the color is the color of the worst
\* severity present (extreme > severe > moderate > minor, letter case
\* ignored) and is the same for every order of the list; a record with an
\* empty or missing alert list gets the no-alert color.
C9_WorstSeverityDecides ==
    Painted("alerts") =>
        IF ~county.data.alerts.present \/ county.data.alerts.list = <<>>
        THEN color = "#F7FCFD"
        ELSE /\ color = RankColors[WorstRank(county.data.alerts.list)]
             /\ \A other \in Reorderings(county.data.alerts.list) :
                    getColor(WithAlerts(county, other), "alerts") = color

C9_Witness ==
    /\ Painted("alerts")
    /\ county.data.alerts.list = <<[severity |-> minor], [severity |-> extreme]>>
    /\ color = "#FF0000"

IsUnknownSeverity(severity) ==
    severityToLowerCase(severity) \notin {extreme, severe, moderate, minor}

\* the alert list with every absent or unknown severity replaced by minor
UnknownAsMinor(alerts) ==
    [ i \in 1..Len(alerts) |->
        IF IsUnknownSeverity(alerts[i].severity) THEN [severity |-> minor]
        ELSE alerts[i] ]

\* the map treats an absent or unknown severity as minor
MapTreatsUnknownAsMinor ==
    (Painted("alerts") /\ county.data.alerts.present) =>
        /\ color = getColor(WithAlerts(county, UnknownAsMinor(county.data.alerts.list)),
                            "alerts")
        /\ ( /\ county.data.alerts.list # <<>>
             /\ \A i \in 1..Len(county.data.alerts.list) :
                    IsUnknownSeverity(county.data.alerts.list[i].severity) )
              => color = "#FFFF00"

\* C10 (as stated): an alert whose severity is absent or unknown is treated
\* as minor, by the map color and by the card's severity badge.
C10_UnknownSeverityIsMinor ==
    /\ MapTreatsUnknownAsMinor
    /\ card # NoCard =>
          \A i \in 1..Len(county.data.alerts.list) :
              IsUnknownSeverity(county.data.alerts.list[i].severity)
                  => card.severityBadges[i] = getSeverityColor(minor)

\* C10 (amended): the map color treats an absent or unknown severity as
\* minor; the card gives such an alert the default badge
\* 'bg-blue-500 text-white', which is not the badge of a minor alert.
C10_UnknownSeverityIsMinorOnMap ==
    /\ MapTreatsUnknownAsMinor
    /\ card # NoCard =>
          \A i \in 1..Len(county.data.alerts.list) :
              IsUnknownSeverity(county.data.alerts.list[i].severity)
                  => /\ card.severityBadges[i] = "bg-blue-500 text-white"
                     /\ card.severityBadges[i] # getSeverityColor(minor)

C10_Witness ==
    /\ Painted("alerts")
    /\ card # NoCard
    /\ county.data.alerts.list =
          << [severity |-> NoSeverity], [severity |-> <<"U","n","k","n","o","w","n">>] >>
    /\ color = "#FFFF00"
    /\ card.severityBadges = <<"bg-blue-500 text-white", "bg-blue-500 text-white">>

(***************************************************************************)
(* Unrecognized metric                                                     *)
(***************************************************************************)
\* C11: for a metric that is none of the five, getColor returns the default
\* color '#9CA3AF', and that color is not the color of any bucket of a
\* recognized metric.
C11_DefaultColorIsNoBucketColor ==
    /\ Painted(UnrecognizedMetric) => color = "#9CA3AF"
    /\ (dataType \in DataTypes /\ color # NoColor)
          => color # getColor(county, UnrecognizedMetric)

(***************************************************************************)
(* Hazard display text                                                     *)
(***************************************************************************)
\* the fields the display text is taken from, in their order of priority
HazardFieldOrder == <<"event", "type", "name", "description", "phenomenon">>

HasDescriptiveField(hazard) ==
    \E k \in 1..Len(HazardFieldOrder) : HasField(hazard, HazardFieldOrder[k])

\* the first non-empty field in the order of priority
FirstDescriptiveField(hazard) ==
    HazardFieldOrder[
        CHOOSE k \in 1..Len(HazardFieldOrder) :
            /\ HasField(hazard, HazardFieldOrder[k])
            /\ \A j \in 1..(k - 1) : ~HasField(hazard, HazardFieldOrder[j]) ]

\* the text of an entry, with `fallback` for objects without such a field
DisplayTextWith(hazard, fallback) ==
    IF hazard.kind = "string" THEN Text(hazard.text)
    ELSE IF hazard.kind = "object" /\ HasDescriptiveField(hazard)
         THEN Text(FieldOf(hazard, FirstDescriptiveField(hazard)))
    ELSE IF hazard.kind = "object" THEN fallback
    ELSE Text("Unknown hazard")

\* C12 (as stated): the text of an entry is the entry itself when it is a
\* string, else its first non-empty field in the order event, type, name,
\* description, phenomenon, and "Unknown hazard" when it is an object with
\* none of them or is no string and no object; the badge text and the text
\* in the hazards line agree for every entry.
C12_HazardTextOrUnknown ==
    card # NoCard =>
        /\ \A i \in 1..Len(county.data.hazards) :
              card.hazardBadges[i]
                  = DisplayTextWith(county.data.hazards[i], Text("Unknown hazard"))
        /\ county.data.hazards # <<>> =>
              card.hazardsLine = JoinTexts(card.hazardBadges)

\* C12 (amended): as C12, except that an object with none of the five
\* fields is shown as its JSON serialization; "Unknown hazard" is the text
\* of an entry that is no string and no object.
C12_HazardTextOrJSON ==
    card # NoCard =>
        /\ \A i \in 1..Len(county.data.hazards) :
              card.hazardBadges[i]
                  = DisplayTextWith(county.data.hazards[i],
                                    JSONStringify(county.data.hazards[i]))
        /\ county.data.hazards # <<>> =>
              card.hazardsLine = JoinTexts(card.hazardBadges)

C12_Witness ==
    /\ card # NoCard
    /\ county.data.hazards = << ObjectHazard(<<[key |-> "id", value |-> "urn:7"]>>) >>
    /\ card.hazardBadges = << <<"{", "id", ":", "urn:7", "}">> >>

(***************************************************************************)
(* The chat widget (Chatbot)                                               *)
(*                                                                         *)
(* A render is atomic; the passive effect of a render whose dependency     *)
(* isDataLoaded changed is flushed by React before the next state update.  *)
(* Interval timers are counted; intervalId tells whether the closure of    *)
(* the last effect run holds one. Requests in flight are counted, and a    *)
(* response takes its content when it is delivered. everLoaded and         *)
(* tickedAfterLoaded are history variables: a health check has reported    *)
(* data_loaded = true, and a timer tick has issued a health check after    *)
(* that report and the effect run that followed it.                        *)
(***************************************************************************)
MaxMessages == 4
MaxHealthInFlight == 2

\* text typed into the input
ChatInputs == { <<>>, <<" ">>, <<"h","i">>, <<" ","y"," ">> }

ApologyText == "Sorry, I'm having trouble connecting to the server. Please try again later."
BotReplyText == "reply"

\* a saturating count of fetches in flight: a request beyond the bound is
\* one whose response never arrives
StartHealthFetch(n) == IF n < MaxHealthInFlight THEN n + 1 ELSE n

\* the effect body without the test of isDataLoaded
intervalsSetUpAlways(loaded) == 1

\* if (!isDataLoaded) intervalId = setInterval(checkConnection, 30000):
\* the number of timers the effect body sets up
intervalsSetUp(loaded) == IF ~loaded THEN 1 ELSE 0

\* a cleanup that leaves the timer running
intervalsAfterCleanupNoClear(active, id) == active

\* if (intervalId) clearInterval(intervalId): the timers left by the cleanup
intervalsAfterCleanup(active, id) == IF id THEN active - 1 ELSE active

\* a handleSubmit that returns early for the empty string only
isBlankOnlyEmpty(text) == text = <<>>

\* !inputValue.trim()
isBlank(text) == Trim(text) = <<>>

\* disabled={isLoading || isConnected === false}
InputDisabled == isLoading \/ isConnected = "false"

ChatInit ==
    /\ PureIdle
    /\ HomeIdle
    /\ JobIdle
    /\ SiteIdle
    /\ MapIdle
    /\ chatMounted = TRUE
    /\ messages = <<>>
    /\ inputValue = <<>>
    /\ isCollapsed = TRUE
    /\ isLoading = FALSE
    /\ isConnected = "null"
    /\ isDataLoaded = FALSE
    /\ isDataLoading = FALSE
    /\ effectPending = TRUE
    /\ intervalId = FALSE
    /\ activeIntervals = 0
    /\ healthInFlight = 0
    /\ chatInFlight = FALSE
    /\ everLoaded = FALSE
    /\ tickedAfterLoaded = FALSE
    /\ chatRequests = <<>>

\* the effect with dependencies [API_URL, isDataLoaded]: the cleanup of the
\* previous run, then checkConnection() and the interval, if not loaded
RunPollingEffect ==
    /\ chatMounted /\ effectPending
    /\ effectPending' = FALSE
    /\ healthInFlight' = StartHealthFetch(healthInFlight)
    /\ activeIntervals' = intervalsAfterCleanup(activeIntervals, intervalId)
                            + intervalsSetUp(isDataLoaded)
    /\ intervalId' = (intervalsSetUp(isDataLoaded) > 0)
    /\ UNCHANGED <<chatMounted, messages, inputValue, isCollapsed, isLoading,
                   isConnected, isDataLoaded, isDataLoading, chatInFlight,
                   everLoaded, tickedAfterLoaded, chatRequests, exceptChat>>

\* an interval timer fires: checkConnection() starts a fetch
PollTick ==
    /\ activeIntervals > 0
    /\ healthInFlight' = StartHealthFetch(healthInFlight)
    /\ tickedAfterLoaded' = (tickedAfterLoaded \/ (everLoaded /\ ~effectPending))
    /\ UNCHANGED <<chatMounted, messages, inputValue, isCollapsed, isLoading,
                   isConnected, isDataLoaded, isDataLoading, effectPending,
                   intervalId, activeIntervals, chatInFlight, everLoaded, chatRequests, exceptChat>>

\* checkConnection after its awaits: the response has status `ok` and a body
\* with data_loaded and data_loading
HealthResponse(ok, loaded, busy) ==
    /\ healthInFlight > 0
    /\ ~(chatMounted /\ effectPending)
    /\ healthInFlight' = healthInFlight - 1
    /\ IF chatMounted
       THEN /\ isConnected' = (IF ok THEN "true" ELSE "false")
            /\ isDataLoaded' = loaded
            /\ isDataLoading' = busy
            /\ effectPending' = (loaded # isDataLoaded)
            /\ everLoaded' = (everLoaded \/ loaded)
       ELSE UNCHANGED <<isConnected, isDataLoaded, isDataLoading, effectPending,
                        everLoaded>>
    /\ UNCHANGED <<chatMounted, messages, inputValue, isCollapsed, isLoading,
                   intervalId, activeIntervals, chatInFlight, tickedAfterLoaded,
                   chatRequests, exceptChat>>

\* checkConnection's catch: fetch or response.json() threw
HealthFailure ==
    /\ healthInFlight > 0
    /\ ~(chatMounted /\ effectPending)
    /\ healthInFlight' = healthInFlight - 1
    /\ IF chatMounted
       THEN /\ isConnected' = "false"
            /\ isDataLoaded' = FALSE
            /\ isDataLoading' = FALSE
            /\ effectPending' = isDataLoaded
       ELSE UNCHANGED <<isConnected, isDataLoaded, isDataLoading, effectPending>>
    /\ UNCHANGED <<chatMounted, messages, inputValue, isCollapsed, isLoading,
                   intervalId, activeIntervals, chatInFlight, everLoaded,
                   tickedAfterLoaded, chatRequests, exceptChat>>

\* the header is clicked
ToggleCollapsed ==
    /\ chatMounted /\ ~effectPending
    /\ isCollapsed' = ~isCollapsed
    /\ UNCHANGED <<chatMounted, messages, inputValue, isLoading, isConnected,
                   isDataLoaded, isDataLoading, effectPending, intervalId,
                   activeIntervals, healthInFlight, chatInFlight, everLoaded,
                   tickedAfterLoaded, chatRequests, exceptChat>>

\* onChange of the input, which is rendered when the widget is open
TypeInput(text) ==
    /\ chatMounted /\ ~effectPending
    /\ ~isCollapsed /\ ~InputDisabled
    /\ inputValue' = text
    /\ UNCHANGED <<chatMounted, messages, isCollapsed, isLoading, isConnected,
                   isDataLoaded, isDataLoading, effectPending, intervalId,
                   activeIntervals, healthInFlight, chatInFlight, everLoaded,
                   tickedAfterLoaded, chatRequests, exceptChat>>

\* handleSubmit up to its first await
SubmitChat ==
    /\ chatMounted /\ ~effectPending
    /\ ~isCollapsed /\ ~InputDisabled
    /\ Len(messages) + 2 <= MaxMessages
    /\ IF isBlank(inputValue)
       THEN UNCHANGED <<messages, inputValue, isLoading, chatInFlight, chatRequests>>
       ELSE /\ messages' = Append(messages, [text |-> inputValue, isUser |-> TRUE])
            /\ inputValue' = <<>>
            /\ isLoading' = TRUE
            /\ chatInFlight' = TRUE
            /\ chatRequests' = Append(chatRequests, inputValue)
    /\ UNCHANGED <<chatMounted, isCollapsed, isConnected, isDataLoaded,
                   isDataLoading, effectPending, intervalId, activeIntervals,
                   healthInFlight, everLoaded, tickedAfterLoaded, exceptChat>>

\* handleSubmit after its awaits: the bot's answer, or the catch branch for a
\* response that is not OK or a fetch that threw; then the finally branch
ChatResponse(ok) ==
    /\ chatInFlight
    /\ ~(chatMounted /\ effectPending)
    /\ chatInFlight' = FALSE
    /\ IF chatMounted
       THEN /\ messages' = Append(messages,
                              [text |-> IF ok THEN BotReplyText ELSE ApologyText,
                               isUser |-> FALSE])
            /\ isConnected' = (IF ok THEN isConnected ELSE "false")
            /\ isLoading' = FALSE
       ELSE UNCHANGED <<messages, isConnected, isLoading>>
    /\ UNCHANGED <<chatMounted, inputValue, isCollapsed, isDataLoaded,
                   isDataLoading, effectPending, intervalId, activeIntervals,
                   healthInFlight, everLoaded, tickedAfterLoaded, chatRequests, exceptChat>>

\* the component is unmounted: the cleanup of the last effect run
UnmountChat ==
    /\ chatMounted
    /\ chatMounted' = FALSE
    /\ effectPending' = FALSE
    /\ activeIntervals' = intervalsAfterCleanup(activeIntervals, intervalId)
    /\ intervalId' = FALSE
    /\ UNCHANGED <<messages, inputValue, isCollapsed, isLoading, isConnected,
                   isDataLoaded, isDataLoading, healthInFlight, chatInFlight,
                   everLoaded, tickedAfterLoaded, chatRequests, exceptChat>>

ChatNext ==
    \/ RunPollingEffect
    \/ PollTick
    \/ \E ok \in BOOLEAN, loaded \in BOOLEAN, busy \in BOOLEAN :
          HealthResponse(ok, loaded, busy)
    \/ HealthFailure
    \/ ToggleCollapsed
    \/ \E text \in ChatInputs : TypeInput(text)
    \/ SubmitChat
    \/ \E ok \in BOOLEAN : ChatResponse(ok)
    \/ UnmountChat

SpecChat == ChatInit /\ [][ChatNext]_vars

(***************************************************************************)
(* The legend of MapControls                                               *)
(***************************************************************************)
Min2(a, b) == IF a < b THEN a ELSE b

\* the items of the legend shown for a metric tab, in the order listed
Legend(dt) ==
    IF dt = "temperature"
    THEN << [color |-> "#9EC5FE", label |-> "Below 0"],
            [color |-> "#64B6FF", label |-> "0-10"],
            [color |-> "#FFD166", label |-> "10-20"],
            [color |-> "#FF9966", label |-> "20-30"],
            [color |-> "#FF5F5F", label |-> "Above 30"] >>
    ELSE IF dt = "precipitation"
    THEN << [color |-> "#FFFFFF", label |-> "0%"],
            [color |-> "#E6F0FF", label |-> "1-20%"],
            [color |-> "#B3D9FF", label |-> "21-40%"],
            [color |-> "#80C2FF", label |-> "41-60%"],
            [color |-> "#4DA6FF", label |-> "61-80%"],
            [color |-> "#1A8CFF", label |-> "81-100%"] >>
    ELSE IF dt = "hazards"
    THEN << [color |-> "#FF5F5F", label |-> "Hazards present"],
            [color |-> "#64B6FF", label |-> "No hazards"] >>
    ELSE IF dt = "visibility"
    THEN << [color |-> "#FF5F5F", label |-> "Very poor (<1km)"],
            [color |-> "#FF9966", label |-> "Poor (1-5km)"],
            [color |-> "#FFD166", label |-> "Moderate (5-10km)"],
            [color |-> "#64B6FF", label |-> "Good (>10km)"],
            [color |-> "#9CA3AF", label |-> "Data not available"] >>
    ELSE IF dt = "alerts"
    THEN << [color |-> "#FF0000", label |-> "Severe Alerts"],
            [color |-> "#FFA500", label |-> "Moderate Alerts"],
            [color |-> "#FFFF00", label |-> "Minor Alerts"],
            [color |-> "#64B6FF", label |-> "No Alerts"] >>
    ELSE <<>>

\* the legend item whose label describes the record, for a metric tab
LegendItemOf(c, dt) ==
    IF dt = "temperature" THEN TemperatureBucket(c.data.temperature)
    ELSE IF dt = "precipitation"
         THEN PrecipitationBucket(c.data.probabilityOfPrecipitation)
    ELSE IF dt = "hazards" THEN (IF Len(c.data.hazards) > 0 THEN 1 ELSE 2)
    ELSE IF dt = "visibility"
         THEN (IF c.data.visibility.isNull THEN 5
               ELSE VisibilityBucket(c.data.visibility.number))
    ELSE IF ~c.data.alerts.present \/ c.data.alerts.list = <<>> THEN 4
    ELSE 4 - Min2(WorstRank(c.data.alerts.list), 3)

\* C24: for every metric, the color the map gives a record is the color
\* the legend lists for the record's bucket.
C24_LegendMatchesMap ==
    (dataType \in DataTypes /\ color # NoColor) =>
        color = Legend(dataType)[LegendItemOf(county, dataType)].color


(***************************************************************************)
(* Claims about the chat widget                                            *)
(***************************************************************************)
\* the polling effect has run for the current value of isDataLoaded
EffectSettled == chatMounted /\ ~effectPending

\* C13 (as stated): once a health check has reported data_loaded = true
\* (and the polling effect has re-run), no timer tick issues a health check
\* any more, for the rest of the component's life.
C13_NoTickAfterLoaded == ~tickedAfterLoaded

\* C13 (amended): while isDataLoaded is true no interval timer is set, and
\* while it is false one is: polling stops when a health check reports
\* data_loaded = true and is set up again when a later health check reports
\* data_loaded = false or fails.
C13_PollingIffNotLoaded ==
    EffectSettled => (activeIntervals > 0 <=> ~isDataLoaded)

C13_Witness ==
    /\ EffectSettled
    /\ isDataLoaded
    /\ activeIntervals = 0
    /\ healthInFlight = 0
    /\ isConnected = "true"

\* C18: the pair (isConnected, isDataLoaded) is always one of checking
\* (null, false), connected-no-data (true, false), connected-loaded
\* (true, true), disconnected (false, false).
C18_OneOfFourStates ==
    <<isConnected, isDataLoaded>> \in
        { <<"null", FALSE>>, <<"true", FALSE>>, <<"true", TRUE>>, <<"false", FALSE>> }

\* C19: whenever the input and the Send button are disabled because
\* isConnected is false, a periodic health check is scheduled.
C19_OfflineWidgetKeepsPolling ==
    (EffectSettled /\ isConnected = "false") => activeIntervals > 0

\* C20: at most one interval timer is set while the widget is mounted, and
\* none after it is unmounted.
C20_AtMostOneInterval ==
    /\ activeIntervals <= 1
    /\ ~chatMounted => activeIntervals = 0

C20_Witness ==
    /\ EffectSettled
    /\ everLoaded
    /\ ~isDataLoaded
    /\ activeIntervals = 1

\* the user messages of a list, in order
UserTexts(list) ==
    LET F[i \in 0..Len(list)] ==
            IF i = 0 THEN <<>>
            ELSE IF list[i].isUser THEN Append(F[i - 1], list[i].text)
            ELSE F[i - 1]
    IN F[Len(list)]

\* user messages and replies alternate, every user message carries a text
\* that is not blank and is the text of one request, and isLoading is true
\* exactly between a user message and its reply
C21_MessagesAlternate ==
    /\ \A i \in DOMAIN messages :
          /\ messages[i].isUser <=> (i % 2 = 1)
          /\ messages[i].isUser =>
                \E k \in DOMAIN messages[i].text : ~IsWhiteSpace(messages[i].text[k])
          /\ ~messages[i].isUser => messages[i].text \in {BotReplyText, ApologyText}
    /\ UserTexts(messages) = chatRequests
    /\ isLoading <=> (Len(messages) % 2 = 1)
    /\ chatMounted => (chatInFlight <=> isLoading)

\* a step that changes the message list appends one message: the user's on
\* a submission, which sends the request and empties the input, and the
\* reply when the request is answered, the apology with isConnected false
C21_OneMessagePerStep ==
    messages' # messages =>
        /\ Len(messages') = Len(messages) + 1
        /\ SubSeq(messages', 1, Len(messages)) = messages
        /\ IF messages'[Len(messages')].isUser
           THEN /\ messages'[Len(messages')].text = inputValue
                /\ chatRequests' = Append(chatRequests, inputValue)
                /\ isLoading' /\ ~isLoading
           ELSE /\ chatRequests' = chatRequests
                /\ ~isLoading' /\ isLoading
                /\ messages'[Len(messages')].text = ApologyText => isConnected' = "false"
                /\ messages'[Len(messages')].text = BotReplyText => isConnected' = isConnected

\* C21: a blank submission changes nothing and sends nothing; every other
\* submission appends one user message with the submitted text and sends
\* one request with it, the answer appends one reply (the bot's, or the
\* apology together with isConnected false), isLoading is true in between,
\* and user messages and replies alternate.
C21_SubmissionsAndReplies ==
    /\ []C21_MessagesAlternate
    /\ [][C21_OneMessagePerStep /\ (chatRequests' # chatRequests => messages' # messages)]_vars

C21_Witness ==
    /\ Len(messages) = 4
    /\ messages[1].text = <<" ","y"," ">>
    /\ messages[2].text = BotReplyText
    /\ messages[4].text = ApologyText
    /\ isConnected = "false"
    /\ ~isLoading


(***************************************************************************)
(* The home page: fetchData                                                *)
(*                                                                         *)
(* A response body is either text that response.json() rejects or a parsed *)
(* value.  hpc is the position in fetchData: "effect" before the effect    *)
(* has run, "countyFetch" and "timestampFetch" at the two awaits, "catch"  *)
(* and "finally" in the handlers of the outer try, "done" afterwards.      *)
(***************************************************************************)
NoError == "null"
ErrorText == "Failed to load county data"
NoLastUpdated == "null"
UndefinedLastUpdated == "undefined"

NotJSON == [parses |-> FALSE, value |-> <<>>]
JSONBody(v) == [parses |-> TRUE, value |-> v]

NoCountyResponse == [kind |-> "none", ok |-> FALSE, body |-> NotJSON]
RejectedCountyFetch == [kind |-> "rejected", ok |-> FALSE, body |-> NotJSON]
CountyResponse(ok, body) == [kind |-> "response", ok |-> ok, body |-> body]

\* county lists the artifact may hold
HomeRecords ==
    { CountyData(n, NumberValue(1), NumberValue(0), <<>>, NullValue, NoAlertsField) :
        n \in {FooKey, ElPasoKey} }
HomeCountyLists == UNION { [1..n -> HomeRecords] : n \in 0..MaxCounties }
CountyBodies == {NotJSON} \cup { JSONBody(l) : l \in HomeCountyLists }

\* bodies of weather_timestamp.json: last_updated may be missing
TimestampBodies ==
    {NotJSON} \cup
    { JSONBody(t) : t \in {"2025-05-01 12:00", "2025-05-01 13:00", UndefinedLastUpdated} }

\* a fetchData that does not test countyResponse.ok
countyFailedIgnoringStatus(ok, body) == ~body.parses

\* if (!countyResponse.ok) throw ...; await countyResponse.json() throws on
\* a body that is not JSON
countyFailed(ok, body) == ~ok \/ ~body.parses

\* the three returns of Home
HomeView ==
    IF loading THEN "loading"
    ELSE IF error # NoError THEN "error"
    ELSE "page"

\* Home has rendered for the first time
HomeMounted ==
    /\ PureIdle
    /\ ChatIdle
    /\ JobIdle
    /\ MapIdle
    /\ hpc = "effect"
    /\ loading = TRUE
    /\ error = NoError
    /\ homeCounties = <<>>
    /\ lastUpdated = NoLastUpdated
    /\ countyResponse = NoCountyResponse

HomeInit == HomeMounted /\ SiteIdle

\* the effect runs: setLoading(true) and the first fetch is issued
HomeStartFetch ==
    /\ hpc = "effect"
    /\ loading' = TRUE
    /\ hpc' = "countyFetch"
    /\ UNCHANGED <<error, homeCounties, lastUpdated, countyResponse, exceptHome>>

\* the county fetch rejects (network error)
CountyFetchRejects ==
    /\ hpc = "countyFetch"
    /\ countyResponse' = RejectedCountyFetch
    /\ hpc' = "catch"
    /\ UNCHANGED <<loading, error, homeCounties, lastUpdated, exceptHome>>

\* the county fetch answers: the status test, json() and setCounties
CountyFetchResponds(ok, body) ==
    /\ hpc = "countyFetch"
    /\ countyResponse' = CountyResponse(ok, body)
    /\ IF countyFailed(ok, body)
       THEN /\ hpc' = "catch"
            /\ UNCHANGED homeCounties
       ELSE /\ hpc' = "timestampFetch"
            /\ homeCounties' = body.value
    /\ UNCHANGED <<loading, error, lastUpdated, exceptHome>>

\* the timestamp fetch rejects: the inner catch only warns
TimestampFetchRejects ==
    /\ hpc = "timestampFetch"
    /\ hpc' = "finally"
    /\ UNCHANGED <<loading, error, homeCounties, lastUpdated, countyResponse,
                   exceptHome>>

\* the timestamp fetch answers: setLastUpdated on an OK answer that parses,
\* a warning otherwise
TimestampFetchResponds(ok, body) ==
    /\ hpc = "timestampFetch"
    /\ hpc' = "finally"
    /\ lastUpdated' = (IF ok /\ body.parses THEN body.value ELSE lastUpdated)
    /\ UNCHANGED <<loading, error, homeCounties, countyResponse, exceptHome>>

\* the outer catch
CatchCountyError ==
    /\ hpc = "catch"
    /\ error' = ErrorText
    /\ hpc' = "finally"
    /\ UNCHANGED <<loading, homeCounties, lastUpdated, countyResponse, exceptHome>>

\* the finally branch
FinallyStopLoading ==
    /\ hpc = "finally"
    /\ loading' = FALSE
    /\ hpc' = "done"
    /\ UNCHANGED <<error, homeCounties, lastUpdated, countyResponse, exceptHome>>

HomeNext ==
    \/ HomeStartFetch
    \/ CountyFetchRejects
    \/ \E ok \in BOOLEAN, body \in CountyBodies : CountyFetchResponds(ok, body)
    \/ TimestampFetchRejects
    \/ \E ok \in BOOLEAN, body \in TimestampBodies : TimestampFetchResponds(ok, body)
    \/ CatchCountyError
    \/ FinallyStopLoading

SpecHome == HomeInit /\ [][HomeNext]_vars

\* every fetch that was issued settles, and the code after an await runs
SpecHomeFair == SpecHome /\ WF_vars(HomeNext)

\* C14: loading eventually becomes false and stays false, and then the view
\* is the error view with the error set when the county fetch rejected,
\* answered with a non-OK status or with a body that does not parse, and
\* the full page with the fetched counties and no error otherwise.
C14_ViewMatchesOutcome ==
    hpc = "done" =>
        /\ loading = FALSE
        /\ IF countyResponse.kind = "rejected"
              \/ ~countyResponse.ok \/ ~countyResponse.body.parses
           THEN HomeView = "error" /\ error = ErrorText
           ELSE /\ HomeView = "page"
                /\ error = NoError
                /\ homeCounties = countyResponse.body.value

C14_AlwaysLeavesLoading ==
    /\ []C14_ViewMatchesOutcome
    /\ <>[](hpc = "done" /\ loading = FALSE)

C14_Witness ==
    /\ hpc = "done"
    /\ HomeView = "error"
    /\ countyResponse.kind = "response"
    /\ ~countyResponse.ok
    /\ countyResponse.body.parses

(***************************************************************************)
(* The scheduled job update-data                                           *)
(*                                                                         *)
(* jpc is the index of the step that is next, jobResult the result of the  *)
(* job so far.  The three artifacts are held in the runner's working tree  *)
(* (workFiles), on origin/main (mainFiles) and on the deployed site        *)
(* (pagesFiles).  The collection script is modelled from its description:  *)
(* one lookup per configured county, a failed lookup degrades or drops     *)
(* that county's record, and the run aborts when no lookup succeeds.       *)
(***************************************************************************)
JobSteps ==
    << "checkout", "setupPython", "installPython", "gitIdentity", "collect",
       "verify", "commitPush", "setupNode", "npmCi", "buildDeploy" >>

PlainSteps ==
    { "checkout", "setupPython", "installPython", "gitIdentity", "verify",
      "setupNode", "npmCi" }

max_retries == 3

MaxConfigured == 3

Artifacts == { "texas_counties_weather.json", "texas_counties_weather.csv",
               "weather_timestamp.json" }

\* the counties of the county file, and the lists the job may be configured with
CountyFile == { "Anderson", "Bexar", "Comal", "Dallas" }
ConfiguredLists ==
    { S \in SUBSET CountyFile : Cardinality(S) >= 2 /\ Cardinality(S) <= MaxConfigured }

\* what a file holds: the previous snapshot, the snapshot of this run, or a
\* file the script was still writing
PreviousContent == [version |-> "previous", records |-> {}]
NewContent(records) == [version |-> "new", records |-> records]
PartialContent == [version |-> "partial", records |-> {}]
PreviousFiles == [a \in Artifacts |-> PreviousContent]

\* a collector that gives up at the first failed lookup
collectorExitStrict(lookups, failed) == IF failed # {} THEN 1 ELSE 0

\* the exit status of the collection script: non-zero when the source
\* answered for no county
collectorExit(lookups, failed) == IF failed = lookups THEN 1 ELSE 0

\* the records of the snapshot: a failed county is dropped, or kept with
\* its fields absent
collectorRecords(lookups, failed, drop) ==
    { [countyName |-> c, observed |-> c \notin failed] :
        c \in (IF drop THEN lookups \ failed ELSE lookups) }

\* steps that run whatever happened before
stepCanRunAlways(result) == TRUE

\* no step has an if: or continue-on-error:, so a step runs while no
\* earlier step has failed
stepCanRun(result) == result = "running"

\* a loop that goes on after the third failed push
retriesLeftOneMore(count) == count <= max_retries

\* [ $retry_count -lt $max_retries ]
retriesLeft(count) == count < max_retries

\* ! git diff --quiet && ! git diff --staged --quiet
shouldCommit(unstaged, staged) == unstaged /\ staged

AtStep(name) ==
    /\ jpc \in DOMAIN JobSteps
    /\ JobSteps[jpc] = name
    /\ stepCanRun(jobResult)

JobInit ==
    /\ PureIdle
    /\ ChatIdle
    /\ HomeIdle
    /\ SiteIdle
    /\ MapIdle
    /\ jpc = 1
    /\ jobResult = "running"
    /\ configured \in ConfiguredLists
    /\ dropPolicy \in BOOLEAN
    /\ unstagedChanges \in BOOLEAN
    /\ failedLookups = {}
    /\ collectExit = NotRun
    /\ collectFailed = FALSE
    /\ workFiles = PreviousFiles
    /\ mainFiles = PreviousFiles
    /\ pagesFiles = PreviousFiles
    /\ committed = FALSE
    /\ retry_count = 0
    /\ push_successful = FALSE
    /\ deployed = FALSE
    /\ pullsDone = 0

\* a step that does not touch the artifacts succeeds or fails
PlainStep(ok) ==
    /\ \E name \in PlainSteps : AtStep(name)
    /\ jpc' = jpc + 1
    /\ jobResult' = (IF ok THEN jobResult ELSE "failure")
    /\ UNCHANGED <<configured, dropPolicy, unstagedChanges, failedLookups,
                   collectExit, collectFailed, workFiles, mainFiles, pagesFiles,
                   committed, retry_count, push_successful, deployed, pullsDone, exceptJob>>

\* a step after a failed step is skipped
SkipStep ==
    /\ jpc \in DOMAIN JobSteps
    /\ ~stepCanRun(jobResult)
    /\ jpc' = jpc + 1
    /\ UNCHANGED <<jobResult, configured, dropPolicy, unstagedChanges,
                   failedLookups, collectExit, collectFailed, workFiles,
                   mainFiles, pagesFiles, committed, retry_count,
                   push_successful, deployed, pullsDone, exceptJob>>

\* the collection script runs to its end: the lookups in `failed` fail
Collect(failed) ==
    /\ AtStep("collect")
    /\ failed \subseteq configured
    /\ failedLookups' = failed
    /\ collectExit' = collectorExit(configured, failed)
    /\ jpc' = jpc + 1
    /\ IF collectorExit(configured, failed) = 0
       THEN /\ workFiles' = [a \in Artifacts |->
                               NewContent(collectorRecords(configured, failed, dropPolicy))]
            /\ UNCHANGED <<jobResult, collectFailed>>
       ELSE /\ jobResult' = "failure"
            /\ collectFailed' = TRUE
            /\ UNCHANGED workFiles
    /\ UNCHANGED <<configured, dropPolicy, unstagedChanges, mainFiles, pagesFiles,
                   committed, retry_count, push_successful, deployed, pullsDone, exceptJob>>

\* the collection script dies while it writes the files in `written`
CollectCrashes(written) ==
    /\ AtStep("collect")
    /\ workFiles' = [a \in Artifacts |->
                        IF a \in written THEN PartialContent ELSE workFiles[a]]
    /\ jobResult' = "failure"
    /\ collectFailed' = TRUE
    /\ jpc' = jpc + 1
    /\ UNCHANGED <<configured, dropPolicy, unstagedChanges, failedLookups,
                   collectExit, mainFiles, pagesFiles, committed, retry_count,
                   push_successful, deployed, pullsDone, exceptJob>>

\* git add, the test of the two diffs and git commit, or a failure of one
\* of these commands
StageAndCommit(ok) ==
    /\ AtStep("commitPush")
    /\ ~committed
    /\ IF ~ok
       THEN /\ jobResult' = "failure"
            /\ jpc' = jpc + 1
            /\ UNCHANGED committed
       ELSE IF shouldCommit(unstagedChanges, workFiles # mainFiles)
       THEN /\ committed' = TRUE
            /\ UNCHANGED <<jobResult, jpc>>
       ELSE /\ jpc' = jpc + 1
            /\ UNCHANGED <<jobResult, committed>>
    /\ UNCHANGED <<configured, dropPolicy, unstagedChanges, failedLookups,
                   collectExit, collectFailed, workFiles, mainFiles, pagesFiles,
                   retry_count, push_successful, deployed, pullsDone, exceptJob>>

\* one pass of the while loop: git pull --rebase, then git push.  The step
\* runs under bash -e, so a failing pull ends the step at once; a failing
\* push is counted, and the third one ends the step with exit 1
PushAttempt(outcome) ==
    /\ AtStep("commitPush")
    /\ committed
    /\ retriesLeft(retry_count) /\ ~push_successful
    /\ pullsDone' = pullsDone + 1
    /\ IF outcome = "pullFailed"
       THEN /\ jpc' = jpc + 1
            /\ jobResult' = "failure"
            /\ UNCHANGED <<retry_count, push_successful, mainFiles>>
       ELSE IF outcome = "pushed"
       THEN /\ push_successful' = TRUE
            /\ mainFiles' = workFiles
            /\ jpc' = jpc + 1
            /\ UNCHANGED <<retry_count, jobResult>>
       ELSE /\ retry_count' = retry_count + 1
            /\ IF retriesLeft(retry_count + 1)
               THEN UNCHANGED <<jpc, jobResult>>
               ELSE jpc' = jpc + 1 /\ jobResult' = "failure"
            /\ UNCHANGED <<push_successful, mainFiles>>
    /\ UNCHANGED <<configured, dropPolicy, unstagedChanges, failedLookups,
                   collectExit, collectFailed, workFiles, pagesFiles, committed,
                   deployed, exceptJob>>

\* npm run build, the three cp, npm run deploy and the verification: the
\* step succeeds, or fails before or after the deployment
BuildDeploy(outcome) ==
    /\ AtStep("buildDeploy")
    /\ jpc' = jpc + 1
    /\ jobResult' = (IF outcome = "ok" THEN jobResult ELSE "failure")
    /\ IF outcome = "failedBeforeDeploy"
       THEN UNCHANGED <<pagesFiles, deployed>>
       ELSE pagesFiles' = workFiles /\ deployed' = TRUE
    /\ UNCHANGED <<configured, dropPolicy, unstagedChanges, failedLookups,
                   collectExit, collectFailed, workFiles, mainFiles, committed,
                   retry_count, push_successful, pullsDone, exceptJob>>

\* all steps are over
FinishJob ==
    /\ jpc = Len(JobSteps) + 1
    /\ jobResult = "running"
    /\ jobResult' = "success"
    /\ UNCHANGED <<jpc, configured, dropPolicy, unstagedChanges, failedLookups,
                   collectExit, collectFailed, workFiles, mainFiles, pagesFiles,
                   committed, retry_count, push_successful, deployed, pullsDone, exceptJob>>

JobNext ==
    \/ \E ok \in BOOLEAN : PlainStep(ok)
    \/ SkipStep
    \/ \E failed \in SUBSET CountyFile : Collect(failed)
    \/ \E written \in SUBSET Artifacts : CollectCrashes(written)
    \/ \E ok \in BOOLEAN : StageAndCommit(ok)
    \/ \E outcome \in {"pushed", "pushFailed", "pullFailed"} : PushAttempt(outcome)
    \/ \E outcome \in {"ok", "failedBeforeDeploy", "failedAfterDeploy"} :
          BuildDeploy(outcome)
    \/ FinishJob

SpecJob == JobInit /\ [][JobNext]_vars

\* the runner runs the next step, and a command that was started ends
SpecJobFair == SpecJob /\ WF_vars(JobNext)

\* C15: if the collection step fails, the artifacts on main and on the
\* deployed site stay the previous ones, no commit, push or deploy happens
\* in the run, and the run is failed.
C15_FailedCollectionPublishesNothing ==
    collectFailed =>
        /\ mainFiles = PreviousFiles
        /\ pagesFiles = PreviousFiles
        /\ ~committed
        /\ retry_count = 0 /\ ~push_successful
        /\ ~deployed
        /\ jobResult = "failure"

C15_Witness ==
    /\ collectFailed
    /\ jpc = Len(JobSteps) + 1
    /\ \E a \in Artifacts : workFiles[a] = PartialContent
    /\ jobResult = "failure"

\* C17: if exactly one lookup of the N configured counties has failed, the
\* collection step succeeds and the snapshot has N or N - 1 records, and at
\* least one.
C17_OneFailedLookupStillPublishes ==
    (collectExit # NotRun /\ Cardinality(failedLookups) = 1) =>
        /\ collectExit = 0
        /\ ~collectFailed
        /\ \A a \in Artifacts :
              /\ workFiles[a].version = "new"
              /\ Cardinality(workFiles[a].records) \in
                    { Cardinality(configured), Cardinality(configured) - 1 }
              /\ workFiles[a].records # {}

C17_Witness ==
    /\ collectExit = 0
    /\ Cardinality(failedLookups) = 1
    /\ deployed
    /\ jobResult = "success"
    /\ Cardinality(pagesFiles["texas_counties_weather.json"].records)
          = Cardinality(configured) - 1

\* the git push commands that have run, and the step after commit-and-push
PushesDone == retry_count + (IF push_successful THEN 1 ELSE 0)
AfterCommitPush == CHOOSE i \in DOMAIN JobSteps : JobSteps[i] = "commitPush"

\* C29 (as stated): once a commit is made, the commit-and-push step fails
\* exactly when all 3 push attempts have failed.
C29_FailsExactlyAfterThreePushes ==
    (committed /\ jpc = AfterCommitPush + 1) =>
        (jobResult = "failure" <=> retry_count = max_retries)

\* the safety half of C29 (amended)
C29_PushLoop ==
    committed =>
        /\ PushesDone <= max_retries
        /\ PushesDone <= pullsDone /\ pullsDone <= PushesDone + 1
        /\ push_successful => (jpc > AfterCommitPush /\ mainFiles = workFiles)
        /\ jpc = AfterCommitPush + 1 =>
              (jobResult = "failure" <=>
                  (retry_count = max_retries \/ pullsDone > PushesDone))
        /\ (jpc > AfterCommitPush /\ ~push_successful) =>
              (jobResult = "failure" /\ ~deployed /\ mainFiles = PreviousFiles)

\* C29 (amended): after a commit the push is attempted at most 3 times,
\* each attempt after a pull --rebase; the loop stops at the first
\* successful push; the step fails when the third push fails and also, at
\* once and without further attempts, when a pull --rebase fails; after a
\* failed step no build or deploy runs; the loop and the job terminate.
C29_PushLoopTerminates ==
    /\ []C29_PushLoop
    /\ <>[](jpc = Len(JobSteps) + 1 /\ jobResult # "running")

C29_Witness ==
    /\ committed
    /\ retry_count = max_retries
    /\ pullsDone = max_retries
    /\ jpc = Len(JobSteps) + 1
    /\ jobResult = "failure"
    /\ ~deployed

\* C30: when the commit-and-push step has run without a failing command,
\* a commit was made if the collection changed an artifact file, and only
\* then.
C30_CommitsEveryChange ==
    (jpc = AfterCommitPush + 1 /\ jobResult = "running") =>
        (committed <=> \E a \in Artifacts : workFiles[a] # PreviousFiles[a])

(***************************************************************************)
(* The home page reading a site that is published to                       *)
(*                                                                         *)
(* The deploy step replaces the artifacts of the site by those of a new    *)
(* snapshot; the page fetches the county file and the timestamp file one   *)
(* after the other.                                                        *)
(***************************************************************************)
MaxSnapshots == 5

\* the county file and the timestamp file of snapshot n
SnapshotCounties(n) ==
    << CountyData(FooKey, NumberValue(n), NumberValue(0), <<>>, NullValue,
                  NoAlertsField) >>
SnapshotTimestamp(n) == "2025-05-01 " \o ToString(n) \o ":00"

HomeSiteInit == HomeMounted /\ siteSnapshot = 1

\* a later run of the job deploys the next snapshot
Publish ==
    /\ siteSnapshot < MaxSnapshots
    /\ siteSnapshot' = siteSnapshot + 1
    /\ UNCHANGED <<pureVars, chatVars, homeVars, jobVars, mapVars>>

\* the site answers the county fetch with the deployed county file
CountyFetchFromSite(ok) ==
    CountyFetchResponds(ok, IF ok THEN JSONBody(SnapshotCounties(siteSnapshot))
                            ELSE NotJSON)

\* the site answers the timestamp fetch with the deployed timestamp file
TimestampFetchFromSite(ok) ==
    TimestampFetchResponds(ok, IF ok THEN JSONBody(SnapshotTimestamp(siteSnapshot))
                               ELSE NotJSON)

HomeSiteNext ==
    \/ Publish
    \/ HomeStartFetch
    \/ CountyFetchRejects
    \/ \E ok \in BOOLEAN : CountyFetchFromSite(ok)
    \/ TimestampFetchRejects
    \/ \E ok \in BOOLEAN : TimestampFetchFromSite(ok)
    \/ CatchCountyError
    \/ FinallyStopLoading

SpecHomeSite == HomeSiteInit /\ [][HomeSiteNext]_vars

\* C22: the records and the lastUpdated value that the page shows belong
\* to one snapshot.
C22_TimestampOfShownRecords ==
    ( /\ HomeView = "page"
      /\ lastUpdated \notin {NoLastUpdated, UndefinedLastUpdated} ) =>
        \E n \in 1..MaxSnapshots :
            /\ homeCounties = SnapshotCounties(n)
            /\ lastUpdated = SnapshotTimestamp(n)

(***************************************************************************)
(* The map: TexasMap and MapContainer                                      *)
(*                                                                         *)
(* Map instances are numbered in the order of their creation; mapCurrent   *)
(* is map.current, 0 for null.  A change of the metric tab re-runs the     *)
(* init effect: its cleanup removes the instance and its body creates the  *)
(* next one.  A fetch in flight remembers the instance whose load callback *)
(* started it and the dataType of that callback's closure; when it is      *)
(* answered, its callback acts on map.current.  The sources, the fill      *)
(* color and the handlers are those of the current instance.               *)
(***************************************************************************)
MaxInstances == 2

NoPolygon == <<>>
NullCounty == <<>>
BarCountyLabel == <<"B","a","r"," ","C","o","u","n","t","y">>

\* the tabs the user switches between, and the COUNTY labels of the polygons
MapTabs == {"alerts", "temperature", "precipitation"}
MapPolygonLabels == { FooCountyLabel, BarCountyLabel, ElPasoKey }

MapRecord(name) == CountyData(name, 15, 0, <<>>, NullValue, NoAlertsField)
MapCountyLists ==
    { << MapRecord(FooKey), MapRecord(ElPasoKey) >>,
      << MapRecord(FooCountyLabel) >>,
      << >> }

\* a match expression: its branches in order, and its fallback
NoFill == [branches |-> <<>>, fallback |-> ""]

\* ['match', ['get', 'COUNTY'], `${countyName} County`, getColor(...), ...,
\* '#CCCCCC']
generateFillColorExpression(list, dt) ==
    [ branches |-> [ i \in 1..Len(list) |->
                       [ label |-> list[i].countyName \o <<" ">> \o CountyLiteral,
                         color |-> getColor(list[i], dt) ] ],
      fallback |-> "#CCCCCC" ]

\* the value of a match expression for a polygon whose COUNTY is `input`
EvaluateMatch(expr, input) ==
    LET hits == { i \in DOMAIN expr.branches : expr.branches[i].label = input }
    IN  IF hits = {} THEN expr.fallback
        ELSE expr.branches[CHOOSE i \in hits : \A j \in hits : i <= j].color

\* props.COUNTY.replace(' County', ''): the first occurrence is removed
ReplaceFirstCounty(s) ==
    LET pattern == <<" ">> \o CountyLiteral
        starts == { i \in 1..(Len(s) - Len(pattern) + 1) :
                      SubSeq(s, i, i + Len(pattern) - 1) = pattern }
    IN  IF starts = {} THEN s
        ELSE LET i == CHOOSE k \in starts : \A j \in starts : k <= j
             IN  SubSeq(s, 1, i - 1) \o SubSeq(s, i + Len(pattern), Len(s))

\* the record the click and mousemove handlers look up for a polygon
handlerLookup(list, label) == findCountyByName(list, ReplaceFirstCounty(label))

\* if (countyData) onCountyHover(countyData): hoveredCounty after the handler
hoverResult(countyData, hovered) ==
    IF countyData # Undefined THEN countyData ELSE hovered

\* a hover card that is rendered whatever is selected
CardsShownBoth(selected, hovered) ==
    (IF selected # NullCounty THEN {"fixed"} ELSE {})
        \cup (IF hovered # NullCounty THEN {"follow-cursor"} ELSE {})

\* {selectedCounty && ...} and {hoveredCounty && !selectedCounty && ...}
CardsShown(selected, hovered) ==
    (IF selected # NullCounty THEN {"fixed"} ELSE {})
        \cup (IF hovered # NullCounty /\ selected = NullCounty
              THEN {"follow-cursor"} ELSE {})

\* map.addSource throws when the style of the map is not loaded or the map
\* has a source of that id
addSourceSucceeds(loaded, by) == loaded /\ by = 0

Fetch(file, owner, dt) == [file |-> file, owner |-> owner, dataType |-> dt]

MapInit ==
    /\ PureIdle
    /\ PageIdle
    /\ mapCounties \in MapCountyLists
    /\ mapDataType = "alerts"
    /\ selectedCounty = NullCounty
    /\ hoveredCounty = NullCounty
    /\ mapCurrent = 1
    /\ instancesCreated = 1
    /\ loadPending = TRUE
    /\ styleLoaded = FALSE
    /\ pendingFetches = {}
    /\ countySourceBy = 0
    /\ statesSourceBy = 0
    /\ citiesSourceBy = 0
    /\ fillColor = NoFill
    /\ handlersBy = 0
    /\ hoveredCountyId = NoPolygon
    /\ cursor = NoPolygon
    /\ lastClicked = NoPolygon

\* the load event of the current instance: the two fetches are started
MapLoad ==
    /\ mapCurrent # 0 /\ loadPending
    /\ loadPending' = FALSE
    /\ styleLoaded' = TRUE
    /\ pendingFetches' = pendingFetches \cup
          { Fetch("us_states.geojson", mapCurrent, mapDataType),
            Fetch("tx_counties.geojson", mapCurrent, mapDataType) }
    /\ UNCHANGED <<mapCounties, mapDataType, selectedCounty, hoveredCounty,
                   mapCurrent, instancesCreated, countySourceBy, statesSourceBy,
                   citiesSourceBy, fillColor, handlersBy, hoveredCountyId, cursor,
                   lastClicked, exceptMap>>

\* us_states.geojson is answered: source and layer are added to map.current
StatesFetchDone(f) ==
    /\ f \in pendingFetches /\ f.file = "us_states.geojson"
    /\ pendingFetches' = pendingFetches \ {f}
    /\ statesSourceBy' =
          (IF mapCurrent # 0 /\ addSourceSucceeds(styleLoaded, statesSourceBy)
           THEN f.owner ELSE statesSourceBy)
    /\ UNCHANGED <<mapCounties, mapDataType, selectedCounty, hoveredCounty,
                   mapCurrent, instancesCreated, loadPending, styleLoaded,
                   countySourceBy, citiesSourceBy, fillColor, handlersBy,
                   hoveredCountyId, cursor, lastClicked, exceptMap>>

\* tx_counties.geojson is answered: source, layers with the fill color of
\* the callback's closure, the city fetch and the three handlers, all on
\* map.current; an exception of addSource ends the callback in its catch
CountiesFetchDone(f) ==
    /\ f \in pendingFetches /\ f.file = "tx_counties.geojson"
    /\ IF mapCurrent # 0 /\ addSourceSucceeds(styleLoaded, countySourceBy)
       THEN /\ countySourceBy' = f.owner
            /\ fillColor' = generateFillColorExpression(mapCounties, f.dataType)
            /\ handlersBy' = f.owner
            /\ hoveredCountyId' = NoPolygon
            /\ pendingFetches' = (pendingFetches \ {f}) \cup
                  { Fetch("tx_cities.geojson", f.owner, f.dataType) }
       ELSE /\ pendingFetches' = pendingFetches \ {f}
            /\ UNCHANGED <<countySourceBy, fillColor, handlersBy, hoveredCountyId>>
    /\ UNCHANGED <<mapCounties, mapDataType, selectedCounty, hoveredCounty,
                   mapCurrent, instancesCreated, loadPending, styleLoaded,
                   statesSourceBy, citiesSourceBy, cursor, lastClicked, exceptMap>>

\* tx_cities.geojson is answered, or fails and is replaced by an empty
\* collection: source and layers are added to map.current
CitiesFetchDone(f) ==
    /\ f \in pendingFetches /\ f.file = "tx_cities.geojson"
    /\ pendingFetches' = pendingFetches \ {f}
    /\ citiesSourceBy' =
          (IF mapCurrent # 0 /\ addSourceSucceeds(styleLoaded, citiesSourceBy)
           THEN f.owner ELSE citiesSourceBy)
    /\ UNCHANGED <<mapCounties, mapDataType, selectedCounty, hoveredCounty,
                   mapCurrent, instancesCreated, loadPending, styleLoaded,
                   countySourceBy, statesSourceBy, fillColor, handlersBy,
                   hoveredCountyId, cursor, lastClicked, exceptMap>>

\* a fetch of the states or of the counties fails: its catch logs
FetchFails(f) ==
    /\ f \in pendingFetches /\ f.file # "tx_cities.geojson"
    /\ pendingFetches' = pendingFetches \ {f}
    /\ UNCHANGED <<mapCounties, mapDataType, selectedCounty, hoveredCounty,
                   mapCurrent, instancesCreated, loadPending, styleLoaded,
                   countySourceBy, statesSourceBy, citiesSourceBy, fillColor,
                   handlersBy, hoveredCountyId, cursor, lastClicked, exceptMap>>

\* the color update effect: it returns unless the style is loaded and the
\* county source exists
colorUpdate(loaded, by, fill, list, dt) ==
    IF loaded /\ by # 0 THEN generateFillColorExpression(list, dt) ELSE fill

\* the user selects another tab: setDataType, then the cleanup of the init
\* effect (remove, map.current = null), its body (a new instance) and the
\* color update effect
ChangeTab(dt) ==
    /\ mapCurrent # 0
    /\ dt # mapDataType
    /\ instancesCreated < MaxInstances
    /\ mapDataType' = dt
    /\ mapCurrent' = instancesCreated + 1
    /\ instancesCreated' = instancesCreated + 1
    /\ loadPending' = TRUE
    /\ styleLoaded' = FALSE
    /\ countySourceBy' = 0
    /\ statesSourceBy' = 0
    /\ citiesSourceBy' = 0
    /\ handlersBy' = 0
    /\ hoveredCountyId' = NoPolygon
    /\ fillColor' = colorUpdate(FALSE, 0, NoFill, mapCounties, dt)
    /\ UNCHANGED <<mapCounties, selectedCounty, hoveredCounty, pendingFetches,
                   cursor, lastClicked, exceptMap>>

\* TexasMap is unmounted: the cleanup of the init effect
UnmountMap ==
    /\ mapCurrent # 0
    /\ mapCurrent' = 0
    /\ loadPending' = FALSE
    /\ styleLoaded' = FALSE
    /\ countySourceBy' = 0
    /\ statesSourceBy' = 0
    /\ citiesSourceBy' = 0
    /\ handlersBy' = 0
    /\ hoveredCountyId' = NoPolygon
    /\ fillColor' = NoFill
    /\ UNCHANGED <<mapCounties, mapDataType, selectedCounty, hoveredCounty,
                   instancesCreated, pendingFetches, cursor, lastClicked,
                   exceptMap>>

\* the cursor moves over the polygon `label`: the mousemove handler, if the
\* current instance has one
MouseMove(label) ==
    /\ mapCurrent # 0
    /\ cursor' = label
    /\ IF handlersBy # 0 /\ hoveredCountyId # label
       THEN /\ hoveredCountyId' = label
            /\ hoveredCounty' = hoverResult(handlerLookup(mapCounties, label),
                                            hoveredCounty)
       ELSE UNCHANGED <<hoveredCountyId, hoveredCounty>>
    /\ UNCHANGED <<mapCounties, mapDataType, selectedCounty, mapCurrent,
                   instancesCreated, loadPending, styleLoaded, pendingFetches,
                   countySourceBy, statesSourceBy, citiesSourceBy, fillColor,
                   handlersBy, lastClicked, exceptMap>>

\* the cursor leaves the county layer: the mouseleave handler
MouseLeave ==
    /\ mapCurrent # 0
    /\ cursor # NoPolygon
    /\ cursor' = NoPolygon
    /\ IF handlersBy # 0
       THEN hoveredCountyId' = NoPolygon /\ hoveredCounty' = NullCounty
       ELSE UNCHANGED <<hoveredCountyId, hoveredCounty>>
    /\ UNCHANGED <<mapCounties, mapDataType, selectedCounty, mapCurrent,
                   instancesCreated, loadPending, styleLoaded, pendingFetches,
                   countySourceBy, statesSourceBy, citiesSourceBy, fillColor,
                   handlersBy, lastClicked, exceptMap>>

\* a click on the polygon under the cursor: the click handler
ClickPolygon ==
    /\ mapCurrent # 0
    /\ handlersBy # 0
    /\ cursor # NoPolygon
    /\ lastClicked' = cursor
    /\ selectedCounty' = handlerLookup(mapCounties, cursor)
    /\ UNCHANGED <<mapCounties, mapDataType, hoveredCounty, mapCurrent,
                   instancesCreated, loadPending, styleLoaded, pendingFetches,
                   countySourceBy, statesSourceBy, citiesSourceBy, fillColor,
                   handlersBy, hoveredCountyId, cursor, exceptMap>>

MapNext ==
    \/ MapLoad
    \/ \E f \in pendingFetches : StatesFetchDone(f)
    \/ \E f \in pendingFetches : CountiesFetchDone(f)
    \/ \E f \in pendingFetches : CitiesFetchDone(f)
    \/ \E f \in pendingFetches : FetchFails(f)
    \/ \E dt \in MapTabs : ChangeTab(dt)
    \/ UnmountMap
    \/ \E label \in MapPolygonLabels : MouseMove(label)
    \/ MouseLeave
    \/ ClickPolygon

SpecMap == MapInit /\ [][MapNext]_vars

(***************************************************************************)
(* Claims about the map                                                    *)
(***************************************************************************)

\* C23: the fill color of the county layer and findCountyByName join the
\* polygons to the records by the same rule: for every polygon label the
\* fill color is the color of the record findCountyByName returns for that
\* label, or the fallback #CCCCCC when it returns none, and the record of
\* the fixed card after a click is the record the polygon is colored from.
C23_FillJoinsLikeFind ==
    fillColor # NoFill =>
        \E dt \in MapTabs :
            /\ fillColor = generateFillColorExpression(mapCounties, dt)
            /\ \A label \in MapPolygonLabels :
                  EvaluateMatch(fillColor, label) =
                      (IF findCountyByName(mapCounties, label) = Undefined
                       THEN "#CCCCCC"
                       ELSE getColor(findCountyByName(mapCounties, label)[1], dt))
            /\ (lastClicked # NoPolygon /\ selectedCounty # NullCounty) =>
                  EvaluateMatch(fillColor, lastClicked) =
                      getColor(selectedCounty[1], dt)

\* no load event and no fetch is outstanding
MapSettled == ~loadPending /\ pendingFetches = {}

\* C25: once every pending load and fetch has completed after a change of
\* the tab, the fill color of the county layer is the expression generated
\* from the counties and the metric that is selected now.
C25_FillFollowsSelectedTab ==
    (mapCurrent # 0 /\ MapSettled /\ fillColor # NoFill) =>
        fillColor = generateFillColorExpression(mapCounties, mapDataType)

\* C26: the sources, layers and handlers of a map instance are added only by
\* the callbacks that instance started.
C26_OnlyOwnCallbacksAdd ==
    \A by \in {countySourceBy, statesSourceBy, citiesSourceBy, handlersBy} :
        by \in {0, mapCurrent}

\* C27: while the handlers are attached, a displayed hover record is the
\* record that joins with the polygon under the cursor, and it is null when
\* the cursor is over no polygon.
C27_HoverCardFollowsCursor ==
    (handlersBy # 0 /\ hoveredCounty # NullCounty) =>
        /\ cursor # NoPolygon
        /\ hoveredCounty = handlerLookup(mapCounties, cursor)

\* C28: at most one card is shown, the fixed card whenever a county is
\* selected and the hover card only when none is; selectedCounty is the
\* record joined to the polygon clicked last, or null when that polygon has
\* no record or nothing was clicked, whatever hover events and tab changes
\* happened since.
C28_SelectionAndCards ==
    /\ Cardinality(CardsShown(selectedCounty, hoveredCounty)) <= 1
    /\ (selectedCounty # NullCounty
           <=> "fixed" \in CardsShown(selectedCounty, hoveredCounty))
    /\ ((hoveredCounty # NullCounty /\ selectedCounty = NullCounty)
           <=> "follow-cursor" \in CardsShown(selectedCounty, hoveredCounty))
    /\ selectedCounty =
          (IF lastClicked = NoPolygon THEN NullCounty
           ELSE IF findCountyByName(mapCounties, lastClicked) = Undefined
                THEN NullCounty
                ELSE findCountyByName(mapCounties, lastClicked))

\* a county was selected by a click, the tab was changed afterwards and the
\* cursor is over another county whose record is hovered
C28_Witness ==
    /\ selectedCounty # NullCounty
    /\ hoveredCounty # NullCounty
    /\ hoveredCounty # selectedCounty
    /\ mapDataType # "alerts"
    /\ lastClicked = FooCountyLabel

=============================================================================
